---- MODULE Spec2Model ----
(***************************************************************************)
(* A model of geoutils.georaster.Raster: the Raster object (its dataset    *)
(* handle, cached attributes, in-memory array, isLoaded and matches_disk   *)
(* flags), its constructors, the mutation protocol _update and the         *)
(* operations built on it, copy, save, and the pixel queries.              *)
(*                                                                         *)
(* Coordinates, pixel sizes and pixel values are integers.  A dataset      *)
(* handle is an immutable record (rasterio handles are opened read-only);  *)
(* numpy arrays are mutable objects and live in a heap, so that aliasing   *)
(* between two Rasters is something the model can express.                 *)
(***************************************************************************)
EXTENDS Integers, Sequences, FiniteSets, TLC

\* ------------------------------------------------------------------ bounds

\* Number of operations applied after construction.
MaxOps == 3

\* How far outside the extent of the Raster the queried coordinates reach.
Margin == 2

\* ------------------------------------------------------------- arithmetic

Min(a, b) == IF a <= b THEN a ELSE b
Max(a, b) == IF a >= b THEN a ELSE b
Abs(a) == IF a >= 0 THEN a ELSE -a

\* math.floor(a / b) and math.ceil(a / b) for b # 0.
Floor(a, b) == IF b > 0 THEN a \div b ELSE (-a) \div (-b)
Ceil(a, b) == -Floor(-a, b)

\* int(a / b): truncation toward zero.
Trunc(a, b) == IF (a >= 0) = (b > 0) THEN Floor(a, b) ELSE Ceil(a, b)

RECURSIVE SumSeq(_)
SumSeq(s) == IF s = <<>> THEN 0 ELSE Head(s) + SumSeq(Tail(s))

\* ----------------------------------------------------------------- dtypes

\* numpy's astype / in-place arithmetic on 8-bit integers wraps modulo 2^8;
\* the integers of the model are exact in float64.
Cast(v, dtype) ==
    IF dtype = "uint8" THEN v % 256
    ELSE IF dtype = "int8" THEN ((v + 128) % 256) - 128
    ELSE v

\* rasterio.dtypes.in_dtype_range
in_dtype_range(v, dtype) ==
    IF dtype = "uint8" THEN v >= 0 /\ v <= 255
    ELSE IF dtype = "int8" THEN v >= -128 /\ v <= 127
    ELSE TRUE

\* ----------------------------------------------------------------- nodata

\* A nodata value: None, one number, or one number per band.
NoneNdv == [kind |-> "none", v |-> <<>>]
ScalarNdv(x) == [kind |-> "scalar", v |-> <<x>>]
ListNdv(s) == [kind |-> "list", v |-> s]

\* The nodata value that applies to band b (1-based).
BandNdv(nodata, b) ==
    IF nodata.kind = "list" THEN nodata.v[b] ELSE nodata.v[1]

\* ----------------------------------------------------------- numpy arrays

\* An array object: dtype, number of dimensions, the values by band, row
\* and column (each 1-based here, 0-based in the source) and, for a numpy
\* masked array, its mask.  A plain ndarray has masked = FALSE and a mask
\* that is FALSE everywhere.  A 2-D array is stored as one band, ndim = 2.
NoArray == [dtype |-> "none", ndim |-> 0, masked |-> FALSE, vals |-> <<>>, mask |-> <<>>]

\* arr.shape: (bands, rows, columns), or (rows, columns) for a 2-D array
Shape(arr) ==
    IF arr.vals = <<>> THEN <<>>
    ELSE IF arr.ndim = 2 THEN <<Len(arr.vals[1]), Len(arr.vals[1][1])>>
    ELSE <<Len(arr.vals), Len(arr.vals[1]), Len(arr.vals[1][1])>>

\* np.expand_dims(arr, 0) of a 2-D array
expand_dims(arr) == [arr EXCEPT !.ndim = 3]

\* arr.astype(dtype): a new array, the mask kept.
astype(arr, dtype) ==
    [arr EXCEPT !.dtype = dtype,
                !.vals = [b \in DOMAIN arr.vals |->
                            [i \in DOMAIN arr.vals[b] |->
                               [j \in DOMAIN arr.vals[b][i] |->
                                  Cast(arr.vals[b][i][j], dtype)]]]]

\* ------------------------------------------------- affine transform, CRS

\* affine.Affine(a, b, c, d, e, f): x = a*col + b*row + c, y = d*col + e*row + f
Affine(a, b, c, d, e, f) == [a |-> a, b |-> b, c |-> c, d |-> d, e |-> e, f |-> f]

\* rasterio.crs.CRS.from_epsg
CRS_from_epsg(code) == [epsg |-> code]

\* ------------------------------------------------------- rasterio datasets

\* What a dataset handle (rasterio DatasetReader) gives access to.  `name`
\* is the path of a file on disk or the generated name of a MemoryFile.
NoDs == [name |-> "", driver |-> "none", count |-> 0, dtype |-> "none",
         crs |-> CRS_from_epsg(0), transform |-> Affine(0, 0, 0, 0, 0, 0),
         width |-> 0, height |-> 0, nodata |-> NoneNdv, px |-> <<>>]

\* ds.meta
DsMeta(ds) ==
    [driver |-> ds.driver, dtype |-> ds.dtype, nodata |-> ds.nodata,
     width |-> ds.width, height |-> ds.height, count |-> ds.count,
     crs |-> ds.crs, transform |-> ds.transform]

\* ds.bounds = (left, bottom, right, top) = (xmin, ymin, xmax, ymax)
DsBounds(ds) ==
    LET t == ds.transform IN
    <<t.c, t.f + t.e * ds.height, t.c + t.a * ds.width, t.f>>

\* ds.res = (pixel width, pixel height)
DsRes(ds) == <<Abs(ds.transform.a), Abs(ds.transform.e)>>

\* ds.read(masked=masked): all bands, as a new 3-D array.  With masked=True
\* the pixels equal to the band's nodata value are masked.
DsRead(ds, masked) ==
    [dtype |-> ds.dtype, ndim |-> 3, masked |-> masked, vals |-> ds.px,
     mask |-> [b \in 1..ds.count |->
                 [i \in 1..ds.height |->
                    [j \in 1..ds.width |->
                       /\ masked
                       /\ ds.nodata.kind # "none"
                       /\ ds.px[b][i][j] = BandNdv(ds.nodata, b)]]]]

\* The `bands` argument of load and of the constructor: None, one band
\* number or a list of band numbers, counted from 1.
NoBands == [kind |-> "None", v |-> <<>>]

\* ds.read(bands, masked=masked): the listed bands as a 3-D array, or the
\* one band of a band number as a 2-D array.
DsReadBands(ds, bands, masked) ==
    LET all == DsRead(ds, masked) IN
    [all EXCEPT !.ndim = IF bands.kind = "int" THEN 2 ELSE 3,
                !.vals = [k \in 1..Len(bands.v) |-> all.vals[bands.v[k]]],
                !.mask = [k \in 1..Len(bands.v) |-> all.mask[bands.v[k]]]]

\* Whether `with memfile.open(**meta) as ds: ds.write(imgdata)` succeeds:
\* the array must exist, have the shape and the dtype the metadata
\* announce, and the nodata value must fit the dtype.
WriteOk(meta, imgdata) ==
    /\ imgdata # NoArray
    /\ Shape(imgdata) = <<meta.count, meta.height, meta.width>>
    /\ imgdata.dtype = meta.dtype
    /\ \A k \in 1..Len(meta.nodata.v) : in_dtype_range(meta.nodata.v[k], meta.dtype)
    /\ meta.nodata.kind = "list" => Len(meta.nodata.v) = meta.count

\* The dataset that results from writing imgdata under meta and reopening
\* it under `name`.  ds.write stores the array's underlying values.
DsWrite(meta, imgdata, name) ==
    [name |-> name, driver |-> meta.driver, count |-> meta.count,
     dtype |-> meta.dtype, crs |-> meta.crs, transform |-> meta.transform,
     width |-> meta.width, height |-> meta.height, nodata |-> meta.nodata,
     px |-> imgdata.vals]

\* ------------------------------------------------------------ the heap

\* References to array objects; 0 stands for None.
Refs == 1..4

\* A reference no live object holds.
FreshRef(live) == CHOOSE ref \in Refs \ live : \A q \in Refs \ live : ref <= q

\* Names of MemoryFile datasets (rasterio generates a unique one for each).
MemNames == <<"/vsimem/a.tif", "/vsimem/b.tif", "/vsimem/c.tif", "/vsimem/d.tif">>

\* A MemoryFile name no open handle bears.
FreshName(used) ==
    MemNames[CHOOSE k \in 1..Len(MemNames) :
                /\ MemNames[k] \notin used
                /\ \A q \in 1..k - 1 : MemNames[q] \in used]

\* -------------------------------------------------------------- Raster

default_attrs ==
    <<"bounds", "count", "crs", "dataset_mask", "driver", "dtypes", "height",
      "indexes", "name", "nodata", "res", "shape", "transform", "width">>

\* getattr(ds, attr) for the default attributes (dataset_mask is a bound
\* method of the handle, not a value, and is left out).
DsAttrs(ds) ==
    [bounds |-> DsBounds(ds), count |-> ds.count, crs |-> ds.crs,
     driver |-> ds.driver, dtypes |-> [b \in 1..ds.count |-> ds.dtype],
     height |-> ds.height, indexes |-> [b \in 1..ds.count |-> b],
     name |-> ds.name, nodata |-> ds.nodata, res |-> DsRes(ds),
     shape |-> <<ds.height, ds.width>>, transform |-> ds.transform,
     width |-> ds.width]

\* getattr(ds, attr) for the additional attributes a caller may ask for.
DsExtra(ds, attr) ==
    IF attr = "meta" THEN DsMeta(ds) ELSE DsMeta(NoDs)

Range(s) == {s[k] : k \in 1..Len(s)}

RECURSIVE AppendMissing(_, _)
AppendMissing(attrs, defaults) ==
    IF defaults = <<>> THEN attrs
    ELSE AppendMissing(IF Head(defaults) \in Range(attrs) THEN attrs
                       ELSE Append(attrs, Head(defaults)),
                       Tail(defaults))

\* Raster.__read_attrs(attrs); attrs = <<>> stands for None.  The values of
\* the default attributes are kept in rr.attrs, those of the additional
\* ones in rr.extra; an attribute not named in this call keeps its value.
_read_attrs(rr, attrs) ==
    LET all == IF attrs = <<>> THEN default_attrs
               ELSE AppendMissing(attrs, default_attrs)
    IN [rr EXCEPT !._saved_attrs = all,
                  !.attrs = DsAttrs(rr.ds),
                  !.extra = [a \in DOMAIN rr.extra \cup (Range(all) \ Range(default_attrs)) |->
                                IF a \in Range(all) THEN DsExtra(rr.ds, a)
                                ELSE rr.extra[a]]]

\* The result of an operation: whether it raised, the Raster it acted on
\* and the heap, as they are when it returns or raises.
Outcome(raised, rr, h) == [raised |-> raised, r |-> rr, h |-> h]

\* Raster.load(bands); ds.read raises for a band number the dataset does
\* not have and for an empty list.
load(rr, bands, h, live) ==
    LET ref == FreshRef(live \cup {rr._data})
        arr == IF bands.kind = "None" THEN DsRead(rr.ds, rr._masked)
               ELSE DsReadBands(rr.ds, bands, rr._masked)
    IN IF /\ bands.kind # "None"
          /\ \/ bands.v = <<>>
             \/ \E k \in 1..Len(bands.v) : bands.v[k] \notin 1..rr.ds.count
       THEN Outcome(TRUE, rr, h)
       ELSE Outcome(FALSE,
                    [rr EXCEPT !._data = ref,
                               !.nbands = IF arr.ndim = 3 THEN Shape(arr)[1] ELSE 1],
                    [h EXCEPT ![ref] = arr])

\* Raster.__init__(filename, attrs, load_data, bands, masked, as_memfile) for an
\* instance of class cls.  filename is a path (kind "str") or a MemoryFile
\* holding a dataset (kind "MemoryFile"); files are the files on disk.
__init__(cls, filename, attrs, load_data, bands, masked, as_memfile, files, memname, h, live) ==
    LET isstr == filename.kind = "str"
        ds == IF isstr
              THEN IF as_memfile THEN [files[filename.path] EXCEPT !.name = memname]
                   ELSE files[filename.path]
              ELSE [filename.ds EXCEPT !.name = memname]
        obj == _read_attrs(
                 [cls |-> cls,
                  filename |-> IF isstr THEN "/cwd/" \o filename.path ELSE "None",
                  matches_disk |-> "None",
                  ds |-> ds, _masked |-> masked,
                  _saved_attrs |-> <<>>, attrs |-> DsAttrs(NoDs), extra |-> [a \in {} |-> 0],
                  _data |-> 0, nbands |-> 0, isLoaded |-> FALSE], attrs)
        ld == load(obj, NoBands, h, live)
    IN IF load_data
       THEN Outcome(FALSE,
                    [ld.r EXCEPT !.nbands = Shape(ld.h[ld.r._data])[1],
                                 !.isLoaded = TRUE,
                                 !.matches_disk = IF isstr THEN "True" ELSE "None"],
                    ld.h)
       ELSE Outcome(FALSE, obj, h)

\* No Raster: what a constructor that raised leaves behind.
NoRaster ==
    [cls |-> "none", filename |-> "None", matches_disk |-> "None", ds |-> NoDs,
     _masked |-> FALSE, _saved_attrs |-> <<>>, attrs |-> DsAttrs(NoDs),
     extra |-> [a \in {} |-> 0], _data |-> 0, nbands |-> 0, isLoaded |-> FALSE]

\* Raster.data (getter): the array object, NoArray for None.
data(rr, h) == IF rr._data = 0 THEN NoArray ELSE h[rr._data]

\* Raster.from_array(data, transform, crs, nodata) called on class cls.
\* transform is [kind, v]: an Affine or a tuple of six coefficients, or
\* something else; crs is [kind, code]: an EPSG integer or a CRS object.
from_array(cls, arr, transform, crs, nodata, memname, h, live) ==
    LET tfm == Affine(transform.v[1], transform.v[2], transform.v[3],
                      transform.v[4], transform.v[5], transform.v[6])
        crs2 == IF crs.kind = "int" THEN CRS_from_epsg(crs.code) ELSE [epsg |-> crs.code]
        arr3 == IF Len(Shape(arr)) < 3 THEN expand_dims(arr) ELSE arr
        meta == [driver |-> "GTiff", dtype |-> arr3.dtype, nodata |-> nodata,
                 width |-> Shape(arr3)[3], height |-> Shape(arr3)[2],
                 count |-> Shape(arr3)[1], crs |-> crs2, transform |-> tfm]
    IN IF transform.kind \notin {"Affine", "tuple"} THEN Outcome(TRUE, NoRaster, h)
       ELSE IF arr = NoArray \/ ~WriteOk(meta, arr3) THEN Outcome(TRUE, NoRaster, h)
       ELSE __init__(cls, [kind |-> "MemoryFile", path |-> "",
                           ds |-> DsWrite(meta, arr3, memname)],
                     <<>>, TRUE, NoBands, TRUE, FALSE, <<>>, memname, h, live)

\* Raster.data (setter): new_ref is the array object assigned.
data_setter(rr, new_ref, h) ==
    IF rr._data = 0 THEN Outcome(TRUE, rr, h)
    ELSE IF Shape(h[new_ref]) # Shape(h[rr._data]) THEN Outcome(TRUE, rr, h)
    ELSE IF h[new_ref].dtype # h[rr._data].dtype THEN Outcome(TRUE, rr, h)
    ELSE Outcome(FALSE, [rr EXCEPT !._data = new_ref], h)

\* _update without its call of _read_attrs: the cached attributes keep the
\* values of the previous handle.
_update_stale(rr, imgdata, metadata, vrt_to_driver, memname, h, live) ==
    LET img == IF imgdata = <<>> THEN data(rr, h) ELSE imgdata[1]
        meta0 == IF metadata = <<>> THEN DsMeta(rr.ds) ELSE metadata[1]
        meta == IF meta0.driver = "VRT" THEN [meta0 EXCEPT !.driver = vrt_to_driver]
                ELSE meta0
        obj == [rr EXCEPT !.ds = DsWrite(meta, img, memname), !.matches_disk = "False"]
    IN IF ~WriteOk(meta, img) THEN Outcome(TRUE, rr, h)
       ELSE IF obj.isLoaded THEN load(obj, NoBands, h, live)
       ELSE Outcome(FALSE, obj, h)

\* Raster._update(imgdata, metadata, vrt_to_driver); <<>> stands for None,
\* <<x>> for the argument x.  memname is the name of the new MemoryFile.
_update(rr, imgdata, metadata, vrt_to_driver, memname, h, live) ==
    LET img == IF imgdata = <<>> THEN data(rr, h) ELSE imgdata[1]
        meta0 == IF metadata = <<>> THEN DsMeta(rr.ds) ELSE metadata[1]
        meta == IF meta0.driver = "VRT" THEN [meta0 EXCEPT !.driver = vrt_to_driver]
                ELSE meta0
        obj == [_read_attrs([rr EXCEPT !.ds = DsWrite(meta, img, memname)], <<>>)
                  EXCEPT !.matches_disk = "False"]
    IN IF ~WriteOk(meta, img) THEN Outcome(TRUE, rr, h)
       ELSE IF obj.isLoaded THEN load(obj, NoBands, h, live)
       ELSE Outcome(FALSE, obj, h)

\* Raster.copy(new_array); <<>> stands for None.
copy(rr, new_array, memname, h, live) ==
    LET arr == IF new_array # <<>> THEN new_array[1] ELSE data(rr, h)
        t == rr.attrs.transform
    IN from_array("Raster", arr,
                  [kind |-> "Affine", v |-> <<t.a, t.b, t.c, t.d, t.e, t.f>>],
                  [kind |-> "CRS", code |-> rr.attrs.crs.epsg],
                  rr.attrs.nodata, memname, h, live)

\* Raster.shift(xoff, yoff)
shift(rr, xoff, yoff, memname, h, live) ==
    LET t == rr.attrs.transform
        meta == [DsMeta(rr.ds) EXCEPT
                   !.transform = Affine(t.a, t.b, t.c + xoff, t.d, t.e, t.f + yoff)]
    IN _update(rr, <<>>, <<meta>>, "GTiff", memname, h, live)

\* The array after `imgdata.data[b, imgdata.mask[b]] = v` (masked array) or
\* `imgdata[b, imgdata[b] == pre] = v` (plain array), bands numbered from 1.
FillBand(arr, b, pre, v) ==
    [arr EXCEPT !.vals[b] =
        [i \in DOMAIN arr.vals[b] |->
           [j \in DOMAIN arr.vals[b][i] |->
              IF \/ arr.masked /\ arr.mask[b][i][j]
                 \/ ~arr.masked /\ arr.vals[b][i][j] = pre
              THEN Cast(v, arr.dtype)
              ELSE arr.vals[b][i][j]]]]

\* The loop of set_ndv over bands b..n: band k gets ndv.v[k] where its
\* previous nodata value was.
RECURSIVE FillBands(_, _, _, _, _)
FillBands(arr, b, n, pre_ndv, ndv) ==
    IF b > n THEN arr
    ELSE FillBands(FillBand(arr, b, BandNdv(pre_ndv, b), ndv.v[b]), b + 1, n, pre_ndv, ndv)

\* The single-band branch of set_ndv: the whole array at once.
RECURSIVE FillAll(_, _, _, _)
FillAll(arr, b, pre, v) ==
    IF b > Len(arr.vals) THEN arr
    ELSE FillAll(FillBand(arr, b, pre, v), b + 1, pre, v)

\* set_ndv without the broadcast of a single number to every band.
set_ndv_single(rr, ndv, update_array, memname, h, live) ==
    LET count == rr.attrs.count
        ndv2 == IF ndv.kind = "list" /\ count = 1 THEN ScalarNdv(ndv.v[1]) ELSE ndv
        meta == [DsMeta(rr.ds) EXCEPT !.nodata = ndv2]
        imgdata == data(rr, h)
        pre_ndv == rr.attrs.nodata
        done == IF count > Len(ndv2.v) THEN Len(ndv2.v) ELSE count
        filled == IF count = 1 THEN FillAll(imgdata, 1, pre_ndv.v[1], ndv2.v[1])
                  ELSE FillBands(imgdata, 1, done, pre_ndv, ndv2)
        h1 == [h EXCEPT ![rr._data] = filled]
    IN IF ndv.kind \notin {"scalar", "list"} THEN Outcome(TRUE, rr, h)
       ELSE IF update_array /\ pre_ndv.kind # "none"
       THEN IF imgdata = NoArray THEN Outcome(TRUE, rr, h)
            ELSE IF count > 1 /\ done < count THEN Outcome(TRUE, rr, h1)
            ELSE _update(rr, <<filled>>, <<meta>>, "GTiff", memname, h1, live)
       ELSE _update(rr, <<>>, <<meta>>, "GTiff", memname, h, live)

\* Raster.set_ndv(ndv, update_array).  ndv is [kind, v]: a number (kind
\* "scalar"), an iterable (kind "list") or anything else.
set_ndv(rr, ndv, update_array, memname, h, live) ==
    LET count == rr.attrs.count
        ndv2 == IF ndv.kind = "scalar" /\ count > 1
                THEN ListNdv([b \in 1..count |-> ndv.v[1]])
                ELSE IF ndv.kind = "list" /\ count = 1 THEN ScalarNdv(ndv.v[1])
                ELSE ndv
        meta == [DsMeta(rr.ds) EXCEPT !.nodata = ndv2]
        imgdata == data(rr, h)
        pre_ndv == rr.attrs.nodata
        done == IF count > Len(ndv2.v) THEN Len(ndv2.v) ELSE count
        filled == IF count = 1 THEN FillAll(imgdata, 1, pre_ndv.v[1], ndv2.v[1])
                  ELSE FillBands(imgdata, 1, done, pre_ndv, ndv2)
        h1 == [h EXCEPT ![rr._data] = filled]
    IN IF ndv.kind \notin {"scalar", "list"} THEN Outcome(TRUE, rr, h)
       ELSE IF ndv.kind = "list" /\ count = 1 /\ ndv.v = <<>> THEN Outcome(TRUE, rr, h)
       ELSE IF update_array /\ pre_ndv.kind # "none"
       THEN IF imgdata = NoArray THEN Outcome(TRUE, rr, h)
            ELSE IF count > 1 /\ ~imgdata.masked /\ pre_ndv.kind # "list"
            THEN Outcome(TRUE, rr, h)
            ELSE IF count > 1 /\ done < count THEN Outcome(TRUE, rr, h1)
            ELSE _update(rr, <<filled>>, <<meta>>, "GTiff", memname, h1, live)
       ELSE _update(rr, <<>>, <<meta>>, "GTiff", memname, h, live)

\* Raster.set_dtypes(dtypes, update_array).  dtypes is [kind, v]: a type
\* (kind "type"), a string, an iterable (kind "list") or anything else.
set_dtypes(rr, dtypes, update_array, memname, h, live) ==
    LET count == rr.attrs.count
        dt == IF dtypes.kind \in {"type", "str"} THEN [b \in 1..count |-> dtypes.v[1]]
              ELSE dtypes.v
        meta == [DsMeta(rr.ds) EXCEPT !.dtype = dt[1]]
        imgdata == data(rr, h)
    IN IF dtypes.kind \notin {"type", "str", "list"} THEN Outcome(TRUE, rr, h)
       ELSE IF dt = <<>> THEN Outcome(TRUE, rr, h)
       ELSE IF update_array
       THEN IF imgdata = NoArray THEN Outcome(TRUE, rr, h)
            ELSE IF count = 1
            THEN _update(rr, <<astype(imgdata, dt[1])>>, <<meta>>, "GTiff", memname, h, live)
            ELSE Outcome(TRUE, rr, h)
       ELSE _update(rr, <<>>, <<meta>>, "GTiff", memname, h, live)

\* A mask that keeps only the pixels lying entirely inside the rectangle.
mask_crop_inside(ds, box) ==
    LET t == ds.transform
        c0 == Max(Ceil(box[1] - t.c, t.a), 0)
        c1 == Min(Floor(box[3] - t.c, t.a), ds.width)
        r0 == Max(Ceil(box[4] - t.f, t.e), 0)
        r1 == Min(Floor(box[2] - t.f, t.e), ds.height)
    IN [ok |-> c1 > c0 /\ r1 > r0,
        img |-> [dtype |-> ds.dtype, ndim |-> 3, masked |-> FALSE,
                 vals |-> [b \in 1..ds.count |->
                             [i \in 1..(r1 - r0) |->
                                [j \in 1..(c1 - c0) |-> ds.px[b][r0 + i][c0 + j]]]],
                 mask |-> [b \in 1..ds.count |->
                             [i \in 1..(r1 - r0) |-> [j \in 1..(c1 - c0) |-> FALSE]]]],
        tfm |-> Affine(t.a, t.b, t.c + t.a * c0, t.d, t.e, t.f + t.e * r0)]

\* rasterio.mask.mask(ds, [box], crop=True, all_touched=True) for the
\* rectangle box = (xmin, ymin, xmax, ymax) on a north-up dataset: the
\* window of the pixels the rectangle touches (its bounds rounded outward to
\* pixel edges, clipped to the dataset), or ok = FALSE where the rectangle
\* does not overlap the dataset.  Gives the cropped image and its transform.
mask_crop(ds, box) ==
    LET t == ds.transform
        c0 == Max(Floor(box[1] - t.c, t.a), 0)
        c1 == Min(Ceil(box[3] - t.c, t.a), ds.width)
        r0 == Max(Floor(box[4] - t.f, t.e), 0)
        r1 == Min(Ceil(box[2] - t.f, t.e), ds.height)
    IN [ok |-> c1 > c0 /\ r1 > r0,
        img |-> [dtype |-> ds.dtype, ndim |-> 3, masked |-> FALSE,
                 vals |-> [b \in 1..ds.count |->
                             [i \in 1..(r1 - r0) |->
                                [j \in 1..(c1 - c0) |-> ds.px[b][r0 + i][c0 + j]]]],
                 mask |-> [b \in 1..ds.count |->
                             [i \in 1..(r1 - r0) |-> [j \in 1..(c1 - c0) |-> FALSE]]]],
        tfm |-> Affine(t.a, t.b, t.c + t.a * c0, t.d, t.e, t.f + t.e * r0)]

\* rasterio.warp.reproject(src, dst, src_transform, dst_transform) within
\* one CRS, nearest-neighbour resampling: each destination pixel takes the
\* value of the source pixel that holds its centre, 0 where there is none.
\* Pixel centres are compared in doubled coordinates.
warp_nearest(src, src_tfm, nb, nr, nc, dst_tfm) ==
    [dtype |-> src.dtype, ndim |-> 3, masked |-> FALSE,
     vals |-> [b \in 1..nb |->
                 [i \in 1..nr |->
                    [j \in 1..nc |->
                       LET x2 == 2 * dst_tfm.c + dst_tfm.a * (2 * j - 1)
                           y2 == 2 * dst_tfm.f + dst_tfm.e * (2 * i - 1)
                           col == Floor(x2 - 2 * src_tfm.c, 2 * src_tfm.a)
                           row == Floor(y2 - 2 * src_tfm.f, 2 * src_tfm.e)
                       IN IF /\ col >= 0 /\ col < Len(src.vals[b][1])
                             /\ row >= 0 /\ row < Len(src.vals[b])
                          THEN src.vals[b][row + 1][col + 1]
                          ELSE 0]]],
     mask |-> [b \in 1..nb |-> [i \in 1..nr |-> [j \in 1..nc |-> FALSE]]]]

\* Raster.crop(cropGeom, mode).  cropGeom is [kind, bounds]: a Raster (its
\* bounds attribute), a Vector, a list of coordinates, or anything else.
\* In 'match_extent' mode the new pixel size is the extent divided by the
\* new size; the model covers the extents this division is exact for.
crop(rr, cropGeom, mode, memname, h, live) ==
    LET box == cropGeom.bounds
        meta == DsMeta(rr.ds)
        mc == mask_crop(rr.ds, box)
        t == rr.attrs.transform
        new_height == Trunc(box[4] - box[2], -t.e)
        new_width == Trunc(box[3] - box[1], t.a)
        new_tfm == Affine((box[3] - box[1]) \div new_width, 0, box[1],
                          0, -((box[4] - box[2]) \div new_height), box[4])
        nb == IF rr.isLoaded THEN rr.nbands ELSE rr.attrs.count
        imgdata == data(rr, h)
    IN IF mode \notin {"match_extent", "match_pixel"} THEN Outcome(TRUE, rr, h)
       ELSE IF cropGeom.kind \notin {"Raster", "list"} THEN Outcome(TRUE, rr, h)
       ELSE IF mode = "match_pixel"
       THEN IF ~mc.ok THEN Outcome(TRUE, rr, h)
            ELSE _update(rr, <<mc.img>>,
                         <<[meta EXCEPT !.height = Shape(mc.img)[2],
                                        !.width = Shape(mc.img)[3],
                                        !.transform = mc.tfm]>>,
                         "GTiff", memname, h, live)
       ELSE IF new_width <= 0 \/ new_height <= 0 THEN Outcome(TRUE, rr, h)
       ELSE IF imgdata = NoArray \/ Len(imgdata.vals) # nb THEN Outcome(TRUE, rr, h)
       ELSE _update(rr, <<warp_nearest(imgdata, t, nb, new_height, new_width, new_tfm)>>,
                    <<[meta EXCEPT !.height = new_height,
                                   !.width = new_width,
                                   !.transform = new_tfm]>>,
                    "GTiff", memname, h, live)

\* A save that writes the file without the nodata value.
save_no_nodata(rr, filename, driver, dtype, blank_value, h) ==
    LET arr == data(rr, h)
        meta == [DsMeta(rr.ds) EXCEPT !.driver = driver, !.dtype = arr.dtype,
                                      !.nodata = NoneNdv]
    IN IF ~WriteOk(meta, arr) THEN [raised |-> TRUE, written |-> FALSE, file |-> NoDs]
       ELSE [raised |-> FALSE, written |-> TRUE, file |-> DsWrite(meta, arr, filename)]

\* Raster.save(filename, driver, dtype, blank_value) with no creation
\* options, tags or ground control points.  dtype is "None" or a dtype;
\* blank_value is [kind, v]: None, an int, a float or anything else.  Gives
\* whether the call raised and, when a file was written, its content.
save(rr, filename, driver, dtype, blank_value, h) ==
    LET arr == data(rr, h)
        save_data ==
            IF blank_value.kind \in {"int", "float"}
            THEN [dtype |-> "float64", ndim |-> 3, masked |-> FALSE,
                  vals |-> [b \in 1..rr.ds.count |->
                              [i \in 1..rr.ds.height |->
                                 [j \in 1..rr.ds.width |-> blank_value.v]]],
                  mask |-> [b \in 1..rr.ds.count |->
                              [i \in 1..rr.ds.height |->
                                 [j \in 1..rr.ds.width |-> FALSE]]]]
            ELSE arr
        meta == [DsMeta(rr.ds) EXCEPT !.driver = driver, !.dtype = save_data.dtype]
        nofile == [raised |-> TRUE, written |-> FALSE, file |-> NoDs]
    IN IF dtype = "None" /\ arr = NoArray THEN nofile
       ELSE IF arr = NoArray /\ blank_value.kind = "none"
       THEN [nofile EXCEPT !.raised = FALSE]
       ELSE IF blank_value.kind \notin {"none", "int", "float"} THEN nofile
       ELSE IF ~WriteOk(meta, save_data) THEN nofile
       ELSE [raised |-> FALSE, written |-> TRUE,
             file |-> DsWrite(meta, save_data, filename)]

\* ds.index(x, y): the row and column (0-based) of the pixel that holds the
\* coordinate, rounded down, on a north-up dataset.
ds_index(ds, x, y) ==
    [row |-> Floor(y - ds.transform.f, ds.transform.e),
     col |-> Floor(x - ds.transform.c, ds.transform.a)]

\* ds.read(window=Window(col, row, width, height), fill_value=fill_value,
\* boundless=True, indexes=..., masked=masked): the listed bands over the
\* window; a cell outside the dataset holds fill_value (0 for None) and is
\* masked, like the cells that hold the band's nodata value.  ndim is 3 when
\* no index is given and 2 when `indexes` is one band number.
ReadWindow(ds, bands, ndim, row, col, height, width, fill_value, masked) ==
    LET inside(i, j) == /\ row + i >= 1 /\ row + i <= ds.height
                        /\ col + j >= 1 /\ col + j <= ds.width
        fill(b) == IF fill_value.kind = "none" THEN 0 ELSE BandNdv(fill_value, b)
    IN [dtype |-> ds.dtype, ndim |-> ndim, masked |-> masked,
        vals |-> [k \in 1..Len(bands) |->
                    [i \in 1..height |->
                       [j \in 1..width |->
                          IF inside(i, j) THEN ds.px[bands[k]][row + i][col + j]
                          ELSE fill(bands[k])]]],
        mask |-> [k \in 1..Len(bands) |->
                    [i \in 1..height |->
                       [j \in 1..width |->
                          /\ masked
                          /\ \/ ~inside(i, j)
                             \/ /\ ds.nodata.kind # "none"
                                /\ ds.px[bands[k]][row + i][col + j]
                                     = BandNdv(ds.nodata, bands[k])]]]]

\* np.ma.mean(arr.flatten()): the mean of the cells that are not masked, as
\* the fraction num / den (den = 0: every cell is masked).
ma_mean(arr) ==
    LET nr == Len(arr.vals[1])
        nc == Len(arr.vals[1][1])
        n == Len(arr.vals) * nr * nc
        b(k) == ((k - 1) \div (nr * nc)) + 1
        i(k) == (((k - 1) % (nr * nc)) \div nc) + 1
        j(k) == ((k - 1) % nc) + 1
        on(k) == ~(arr.masked /\ arr.mask[b(k)][i(k)][j(k)])
    IN [num |-> SumSeq([k \in 1..n |-> IF on(k) THEN arr.vals[b(k)][i(k)][j(k)] ELSE 0]),
        den |-> SumSeq([k \in 1..n |-> IF on(k) THEN 1 ELSE 0])]

\* format_value inside value_at_coords.  It tests `window != None` after
\* `window` has been rebound to the rasterio Window that is read, so the
\* reducer is applied whether or not a window size was given: a single
\* pixel is returned as the mean of the one cell read.
format_value(value) == ma_mean(value)

\* What value_at_coords gives back before anything is computed.
NoResult ==
    [raised |-> FALSE, value |-> [kind |-> "none", v |-> <<>>],
     win |-> [kind |-> "none", v |-> <<>>]]

\* value_at_coords with the window placed one pixel to the right of and
\* below the pixel of the coordinate instead of around it.
value_at_coords_uncentred(rr, x, y, latlon, band, masked, window, return_window) ==
    LET idx == ds_index(rr.ds, x, y)
        size == IF window = <<>> THEN 1 ELSE window[1]
        read(bands, ndim) ==
            ReadWindow(rr.ds, bands, ndim, idx.row, idx.col, size, size,
                       rr.attrs.nodata, masked)
        ret(kind, wins) ==
            [raised |-> FALSE,
             value |-> [kind |-> kind, v |-> [k \in DOMAIN wins |-> format_value(wins[k])]],
             win |-> IF return_window THEN [kind |-> kind, v |-> wins]
                     ELSE [kind |-> "none", v |-> <<>>]]
        error == [NoResult EXCEPT !.raised = TRUE]
    IN IF window # <<>> /\ window[1] % 2 # 1 THEN error
       ELSE IF latlon THEN error
       ELSE IF band.kind = "None" /\ rr.nbands = 1
       THEN ret("number", <<read([b \in 1..rr.ds.count |-> b], 3)>>)
       ELSE IF band.kind = "None"
       THEN ret("dict", [k \in DOMAIN rr.attrs.indexes |-> read(<<rr.attrs.indexes[k]>>, 2)])
       ELSE IF band.kind # "int" THEN error
       ELSE IF band.v \notin 1..rr.ds.count THEN error
       ELSE IF return_window THEN error
       ELSE ret("number", <<read(<<band.v>>, 2)>>)

\* Raster.value_at_coords(x, y, latlon, band, masked, window, return_window)
\* with boundless=True and the default reducer np.ma.mean.  band is [kind,
\* v]: None, an int or anything else; window is <<>> for None, <<n>> for n.
\* The value is a number (kind "number") or a dictionary by band number
\* (kind "dict"); so are the windows returned with return_window=True.
value_at_coords(rr, x, y, latlon, band, masked, window, return_window) ==
    LET idx == ds_index(rr.ds, x, y)
        half_win == IF window = <<>> THEN 0 ELSE (window[1] - 1) \div 2
        size == IF window = <<>> THEN 1 ELSE window[1]
        read(bands, ndim) ==
            ReadWindow(rr.ds, bands, ndim, idx.row - half_win, idx.col - half_win,
                       size, size, rr.attrs.nodata, masked)
        ret(kind, wins) ==
            [raised |-> FALSE,
             value |-> [kind |-> kind, v |-> [k \in DOMAIN wins |-> format_value(wins[k])]],
             win |-> IF return_window THEN [kind |-> kind, v |-> wins]
                     ELSE [kind |-> "none", v |-> <<>>]]
        error == [NoResult EXCEPT !.raised = TRUE]
    IN IF window # <<>> /\ window[1] % 2 # 1 THEN error
       ELSE IF latlon THEN error
       ELSE IF band.kind = "None" /\ rr.nbands = 1
       THEN ret("number", <<read([b \in 1..rr.ds.count |-> b], 3)>>)
       ELSE IF band.kind = "None"
       THEN ret("dict", [k \in DOMAIN rr.attrs.indexes |-> read(<<rr.attrs.indexes[k]>>, 2)])
       ELSE IF band.kind # "int" THEN error
       ELSE IF band.v \notin 1..rr.ds.count THEN error
       ELSE IF return_window THEN error
       ELSE ret("number", <<read(<<band.v>>, 2)>>)

\* A number that need not be an integer: the fraction num / den, den > 0.
\* den = 0 stands for NaN.
Frac(num, den) == [num |-> num, den |-> den]
NaN == Frac(0, 0)
FracEq(a, b) == a.den # 0 /\ b.den # 0 /\ a.num * b.den = b.num * a.den
FracLess(a, b) == a.num * b.den < b.num * a.den

\* np.linspace(start, stop, num): num evenly spaced numbers, both ends included.
linspace(start, stop, num) ==
    [k \in 1..num |-> Frac(start * (num - 1) + (k - 1) * (stop - start), num - 1)]

\* s[::1] and s[::-1]
Reverse(s) == [k \in 1..Len(s) |-> s[Len(s) + 1 - k]]

\* What a query that raised gives back, and what one that returned `v` of the
\* given kind gives back.
Raised == [NoResult EXCEPT !.raised = TRUE]
Returned(kind, v) == [NoResult EXCEPT !.value = [kind |-> kind, v |-> v]]

\* Raster.coords(offset, grid): the x and the y coordinates of the pixels,
\* as two 1-D arrays (kind "axes") or as the two 2-D arrays of np.meshgrid
\* (kind "grid").
coords(rr, offset, grid) ==
    LET xmin == rr.attrs.bounds[1]
        xmax == rr.attrs.bounds[3]
        dx == rr.attrs.transform.a
        dy == rr.attrs.transform.e
        xx0 == IF dx > 0 THEN linspace(xmin, xmax, rr.attrs.width + 1)
               ELSE Reverse(linspace(xmin, xmax, rr.attrs.width + 1))
        yy0 == IF dy > 0 THEN linspace(xmin, xmax, rr.attrs.height + 1)
               ELSE Reverse(linspace(xmin, xmax, rr.attrs.height + 1))
        half(a, d) == Frac(2 * a.num + d * a.den, 2 * a.den)
        xx1 == IF offset = "center" THEN [k \in DOMAIN xx0 |-> half(xx0[k], dx)] ELSE xx0
        yy1 == IF offset = "center" THEN [k \in DOMAIN yy0 |-> half(yy0[k], dy)] ELSE yy0
        xx == SubSeq(xx1, 1, Len(xx1) - 1)
        yy == SubSeq(yy1, 1, Len(yy1) - 1)
    IN IF offset \notin {"corner", "center"} THEN Raised
       ELSE IF dx = 0 \/ dy = 0 THEN Raised
       ELSE IF grid
       THEN Returned("grid", <<[i \in DOMAIN yy |-> xx], [i \in DOMAIN yy |-> [j \in DOMAIN xx |-> yy[i]]]>>)
       ELSE Returned("axes", <<xx, yy>>)

\* Raster.xy2ij(x, y): (i, j) = self.ds.index(x, y)
xy2ij(rr, x, y) == <<ds_index(rr.ds, x, y).row, ds_index(rr.ds, x, y).col>>

\* Raster.outside_image(xi, yj, index).  With index=False the result of
\* xy2ij is assigned to (xi, xj): xi becomes the row, yj stays as given.
outside_image(rr, xi, yj, index) ==
    LET xi2 == IF index THEN xi ELSE xy2ij(rr, xi, yj)[1] IN
    IF xi2 < 0 \/ yj < 0 THEN TRUE
    ELSE IF xi2 > rr.ds.width \/ yj > rr.ds.height THEN TRUE
    ELSE FALSE

\* s[lo:hi] of Python on a sequence, lo and hi counted from 0: a negative
\* bound counts from the end, a bound beyond an end is clipped.
PySlice(s, lo, hi) ==
    LET n == Len(s)
        a == IF lo < 0 THEN Max(lo + n, 0) ELSE Min(lo, n)
        b == IF hi < 0 THEN Max(hi + n, 0) ELSE Min(hi, n)
    IN IF b <= a THEN <<>> ELSE SubSeq(s, a + 1, b)

\* A value scipy interpolates between the nodes with a spline whose
\* coefficients come from its triangulation; it is not one of the node
\* values and the model carries it without a number.
Interpolated == [num |-> 0, den |-> -1]

\* scipy.interpolate.griddata((X.flatten(), Y.flatten()), z.flatten(), pt,
\* method=method)[0] for X, Y = np.meshgrid(xs, ys) and the point pt =
\* (px, py) with integer coordinates on a column of xs or beside them.
\*   ok = FALSE: griddata raises (unknown method, no points, as many values
\*     as points required, a triangulation needs points that span a plane);
\*   'nearest': the value of a node at the least distance (`pick` chooses
\*     among equally near nodes, "first" or "last" in the order of flatten);
\*   'linear', 'cubic': NaN outside the rectangle of the nodes, the value of
\*     the node the point lies on, else the interpolation along the grid
\*     line between the two nodes above and below ('linear') or a spline
\*     value ('cubic').
griddata(xs, ys, z, pt, method, pick) ==
    LET nx == Len(xs)
        ny == Len(ys)
        sized == Len(z) = ny /\ \A a \in 1..Len(z) : Len(z[a]) = nx
        dx2(b) == (pt[1] * xs[b].den - xs[b].num) * (pt[1] * xs[b].den - xs[b].num)
        dy2(a) == (pt[2] * ys[a].den - ys[a].num) * (pt[2] * ys[a].den - ys[a].num)
        \* squared distance to node (a, b), scaled by (xs[1].den * ys[1].den)^2
        d2(a, b) == dx2(b) * ys[1].den * ys[1].den + dy2(a) * xs[1].den * xs[1].den
        nodes == (1..ny) \X (1..nx)
        near == {n \in nodes : \A m \in nodes : d2(n[1], n[2]) <= d2(m[1], m[2])}
        order(n) == (n[1] - 1) * nx + n[2]
        chosen == CHOOSE n \in near :
                      \A m \in near : IF pick = "first" THEN order(n) <= order(m)
                                      ELSE order(n) >= order(m)
        onx(b) == xs[b].num = pt[1] * xs[b].den
        ony(a) == ys[a].num = pt[2] * ys[a].den
        inx == \E b, c \in 1..nx : /\ xs[b].num <= pt[1] * xs[b].den
                                   /\ xs[c].num >= pt[1] * xs[c].den
        iny == \E a, c \in 1..ny : /\ ys[a].num <= pt[2] * ys[a].den
                                   /\ ys[c].num >= pt[2] * ys[c].den
        col == CHOOSE b \in 1..nx : onx(b)
        \* the nodes next above and next below the point on its column
        up == CHOOSE a \in 1..ny :
                  /\ ys[a].num > pt[2] * ys[a].den
                  /\ \A c \in 1..ny : ys[c].num > pt[2] * ys[c].den
                                        => ys[c].num >= ys[a].num
        down == CHOOSE a \in 1..ny :
                  /\ ys[a].num < pt[2] * ys[a].den
                  /\ \A c \in 1..ny : ys[c].num < pt[2] * ys[c].den
                                        => ys[c].num <= ys[a].num
        den == ys[1].den
    IN IF method \notin {"nearest", "linear", "cubic"} THEN [ok |-> FALSE, v |-> NaN]
       ELSE IF nx * ny = 0 \/ ~sized THEN [ok |-> FALSE, v |-> NaN]
       ELSE IF method = "nearest"
       THEN [ok |-> TRUE, v |-> Frac(z[chosen[1]][chosen[2]], 1)]
       ELSE IF nx < 2 \/ ny < 2 THEN [ok |-> FALSE, v |-> NaN]
       ELSE IF ~inx \/ ~iny THEN [ok |-> TRUE, v |-> NaN]
       ELSE IF \E a \in 1..ny, b \in 1..nx : onx(b) /\ ony(a)
       THEN [ok |-> TRUE,
             v |-> Frac(z[CHOOSE a \in 1..ny : ony(a)][col], 1)]
       ELSE IF method = "linear" /\ \E b \in 1..nx : onx(b)
       THEN [ok |-> TRUE,
             v |-> Frac(z[up][col] * (pt[2] * den - ys[down].num)
                          + z[down][col] * (ys[up].num - pt[2] * den),
                        ys[up].num - ys[down].num)]
       ELSE [ok |-> TRUE, v |-> Interpolated]

\* One pass of the loop of interp_points, for the point pt: what is appended
\* to rpts, or raised = TRUE where the pass raises.
interp_point(rr, h, pt, nsize, mode, band, pick) ==
    LET xy == coords(rr, "center", FALSE).value.v
        ij == xy2ij(rr, pt[1], pt[2])
        i == ij[1]
        j == ij[2]
        x == PySlice(xy[1], j - nsize, j + nsize + 1)
        y == PySlice(xy[2], i - nsize, i + nsize + 1)
        arr == data(rr, h)
        nb == Len(arr.vals)
        b == IF band - 1 < 0 THEN band - 1 + nb ELSE band - 1
        rows == PySlice(arr.vals[b + 1], i - nsize, i + nsize + 1)
        mrows == PySlice(arr.mask[b + 1], i - nsize, i + nsize + 1)
        z == [a \in DOMAIN rows |-> PySlice(rows[a], j - nsize, j + nsize + 1)]
        zmask == [a \in DOMAIN mrows |-> PySlice(mrows[a], j - nsize, j + nsize + 1)]
        zarr == [dtype |-> arr.dtype, ndim |-> 2, masked |-> arr.masked,
                 vals |-> <<z>>, mask |-> <<zmask>>]
        g == griddata(x, y, z, pt, mode, pick)
    IN IF outside_image(rr, i, j, TRUE) THEN [raised |-> FALSE, v |-> NaN]
       ELSE IF arr = NoArray \/ b < 0 \/ b >= nb THEN [raised |-> TRUE, v |-> NaN]
       ELSE IF mode \in {"linear", "cubic", "quintic", "nearest"}
       THEN [raised |-> FALSE, v |-> IF g.ok THEN g.v ELSE NaN]
       ELSE IF z = <<>> \/ z[1] = <<>> THEN [raised |-> FALSE, v |-> NaN]
       ELSE [raised |-> FALSE, v |-> ma_mean(zarr)]

\* Raster.interp_points(pts, nsize, mode, band): the array of the values
\* for the points, in their order.
interp_points(rr, h, pts, nsize, mode, band, pick) ==
    LET one(k) == interp_point(rr, h, pts[k], nsize, mode, band, pick) IN
    IF mode \notin {"mean", "linear", "cubic", "quintic", "nearest"} THEN Raised
    ELSE IF \E k \in DOMAIN pts : one(k).raised THEN Raised
    ELSE Returned("array", [k \in DOMAIN pts |-> one(k).v])


\* ------------------------------------------------------------ intersection

\* projtools.bounds2poly(bounds): the rectangle of the bounds as a polygon.
bounds2poly(b) ==
    [kind |-> "Polygon", xmin |-> b[1], ymin |-> b[2], xmax |-> b[3], ymax |-> b[4]]

EmptyGeom == [kind |-> "Empty", xmin |-> 0, ymin |-> 0, xmax |-> 0, ymax |-> 0]

\* poly1.intersection(poly2) for two rectangles: a rectangle, a segment of
\* a shared edge, the point of a shared corner, or the empty geometry.
poly_intersection(poly1, poly2) ==
    LET x0 == Max(poly1.xmin, poly2.xmin)
        y0 == Max(poly1.ymin, poly2.ymin)
        x1 == Min(poly1.xmax, poly2.xmax)
        y1 == Min(poly1.ymax, poly2.ymax)
    IN IF x0 > x1 \/ y0 > y1 THEN EmptyGeom
       ELSE [kind |-> IF x0 = x1 /\ y0 = y1 THEN "Point"
                      ELSE IF x0 = x1 \/ y0 = y1 THEN "LineString"
                      ELSE "Polygon",
             xmin |-> x0, ymin |-> y0, xmax |-> x1, ymax |-> y1]

\* geom.area
area(geom) ==
    IF geom.kind = "Polygon" THEN (geom.xmax - geom.xmin) * (geom.ymax - geom.ymin)
    ELSE 0

\* geom.envelope.bounds; the empty tuple for the empty geometry.
envelope_bounds(geom) ==
    IF geom.kind = "Empty" THEN <<>>
    ELSE <<geom.xmin, geom.ymin, geom.xmax, geom.ymax>>

\* What intersection returns: the value and whether a warning was issued.
Extent(kind, v, warned) ==
    [raised |-> FALSE, value |-> [kind |-> kind, v |-> v],
     win |-> [kind |-> "none", v |-> <<>>], warned |-> warned]

\* intersection without the test of the area of the overlap.
intersection_unchecked(rr, rst, files) ==
    LET other == IF rst.kind = "str"
                 THEN __init__("Raster", [kind |-> "str", path |-> rst.path, ds |-> NoDs],
                               <<>>, FALSE, NoBands, TRUE, FALSE,
                               files, "", [ref \in Refs |-> NoArray], {}).r
                 ELSE rst.r
        poly1 == bounds2poly(rr.attrs.bounds)
        poly2 == bounds2poly(other.attrs.bounds)
        intersect == poly_intersection(poly1, poly2)
        extent == envelope_bounds(intersect)
    IN Extent("tuple", extent, FALSE)

\* Raster.intersection(rst).  rst is [kind, r, path]: a Raster or the path
\* of a file.
intersection(rr, rst, files) ==
    LET other == IF rst.kind = "str"
                 THEN __init__("Raster", [kind |-> "str", path |-> rst.path, ds |-> NoDs],
                               <<>>, FALSE, NoBands, TRUE, FALSE,
                               files, "", [ref \in Refs |-> NoArray], {}).r
                 ELSE rst.r
        poly1 == bounds2poly(rr.attrs.bounds)
        poly2 == bounds2poly(other.attrs.bounds)
        intersect == poly_intersection(poly1, poly2)
        extent == envelope_bounds(intersect)
    IN IF area(intersect) = 0 THEN Extent("int", <<0>>, TRUE)
       ELSE Extent("tuple", extent, FALSE)


\* --------------------------------------------------------------- reproject

\* The target grid after the checks of the arguments: the exception raised
\* ("none" when the checks pass) and the CRS, size, bounds and resolution
\* that the rest of reproject works with.
TargetGrid(exc, crs, size, bounds, res) ==
    [exc |-> exc, crs |-> crs, size |-> size, bounds |-> bounds, res |-> res]

\* The checks of reproject without the one that refuses dst_size together
\* with dst_res.
reproject_args_unchecked(dst_ref, dst_crs, dst_size, dst_bounds, dst_res, files) ==
    LET ds_ref == IF dst_ref.kind = "str"
                  THEN __init__("Raster", [kind |-> "str", path |-> dst_ref.path, ds |-> NoDs],
                                <<>>, FALSE, NoBands, TRUE, FALSE, files, "",
                                [ref \in Refs |-> NoArray], {}).r
                  ELSE dst_ref.r
        none == TargetGrid("none", CRS_from_epsg(0), <<>>, <<>>, <<>>)
    IN IF dst_ref.kind # "None" /\ dst_crs # <<>> THEN [none EXCEPT !.exc = "ValueError"]
       ELSE IF dst_ref.kind = "None" /\ dst_crs = <<>> THEN [none EXCEPT !.exc = "ValueError"]
       ELSE IF dst_ref.kind = "str" /\ files[dst_ref.path] = NoDs
       THEN [none EXCEPT !.exc = "AssertionError"]
       ELSE IF dst_ref.kind \notin {"None", "Raster", "str"}
       THEN [none EXCEPT !.exc = "ValueError"]
       ELSE IF dst_ref.kind # "None"
       THEN TargetGrid("none", ds_ref.attrs.crs,
                       <<<<ds_ref.attrs.width, ds_ref.attrs.height>>>>,
                       <<ds_ref.attrs.bounds>>, <<>>)
       ELSE TargetGrid("none", CRS_from_epsg(dst_crs[1]), dst_size, dst_bounds, dst_res)

\* Raster.reproject, its checks of the arguments.  dst_ref is [kind, r,
\* path]: None, a Raster, the path of a file, or anything else; the other
\* arguments are <<>> for None or <<value>>.
reproject_args(dst_ref, dst_crs, dst_size, dst_bounds, dst_res, files) ==
    LET ds_ref == IF dst_ref.kind = "str"
                  THEN __init__("Raster", [kind |-> "str", path |-> dst_ref.path, ds |-> NoDs],
                                <<>>, FALSE, NoBands, TRUE, FALSE, files, "",
                                [ref \in Refs |-> NoArray], {}).r
                  ELSE dst_ref.r
        none == TargetGrid("none", CRS_from_epsg(0), <<>>, <<>>, <<>>)
    IN IF dst_ref.kind # "None" /\ dst_crs # <<>> THEN [none EXCEPT !.exc = "ValueError"]
       ELSE IF dst_ref.kind = "None" /\ dst_crs = <<>> THEN [none EXCEPT !.exc = "ValueError"]
       ELSE IF dst_ref.kind = "str" /\ files[dst_ref.path] = NoDs
       THEN [none EXCEPT !.exc = "AssertionError"]
       ELSE IF dst_ref.kind \notin {"None", "Raster", "str"}
       THEN [none EXCEPT !.exc = "ValueError"]
       ELSE IF dst_ref.kind # "None"
       THEN TargetGrid("none", ds_ref.attrs.crs,
                       <<<<ds_ref.attrs.width, ds_ref.attrs.height>>>>,
                       <<ds_ref.attrs.bounds>>, <<>>)
       ELSE IF dst_size # <<>> /\ dst_res # <<>> THEN [none EXCEPT !.exc = "ValueError"]
       ELSE TargetGrid("none", CRS_from_epsg(dst_crs[1]), dst_size, dst_bounds, dst_res)

\* rasterio.transform.from_bounds(west, south, east, north, width, height),
\* for bounds that the size divides exactly.
from_bounds(b, width, height) ==
    Affine((b[3] - b[1]) \div width, 0, b[1], 0, (b[2] - b[4]) \div height, b[4])

\* rasterio.warp.reproject(source, destination=..., resampling=nearest)
\* between two grids of the same CRS: every pixel of the destination takes
\* the value of the source pixel its centre falls in, or `fill` (dst_nodata,
\* 0 without one) outside the source.
warp_reproject(src, src_tfm, nb, nr, nc, dst_tfm, fill, dtype) ==
    [dtype |-> dtype, ndim |-> 3, masked |-> FALSE,
     vals |-> [b \in 1..nb |->
                 [i \in 1..nr |->
                    [j \in 1..nc |->
                       LET x2 == 2 * dst_tfm.c + dst_tfm.a * (2 * j - 1)
                           y2 == 2 * dst_tfm.f + dst_tfm.e * (2 * i - 1)
                           col == Floor(x2 - 2 * src_tfm.c, 2 * src_tfm.a)
                           row == Floor(y2 - 2 * src_tfm.f, 2 * src_tfm.e)
                       IN IF /\ col >= 0 /\ col < Len(src.vals[b][1])
                             /\ row >= 0 /\ row < Len(src.vals[b])
                          THEN src.vals[b][row + 1][col + 1]
                          ELSE fill[b]]]],
     mask |-> [b \in 1..nb |-> [i \in 1..nr |-> [j \in 1..nc |-> FALSE]]]]

\* What reproject leaves: the exception raised ("none" when it returns),
\* the Raster it was called on, the Raster it returns and the heap.
Reprojected(exc, rr, made, h) ==
    [raised |-> exc # "none", exc |-> exc, self |-> rr, r |-> made, h |-> h]

\* The end of reproject: the Raster made of the warped array, when
\* from_array accepted it.
reproject_return(rr, made, h) ==
    IF made.raised THEN Reprojected("Exception", rr, NoRaster, h)
    ELSE Reprojected("none", rr, made.r, made.h)

\* reproject from the call of rasterio.warp.reproject on, for nc columns and
\* nr rows under the transform tfm; `fixed` tells whether the destination is
\* the float array that reproject prepares when the size is known.
reproject_warp(rr, crs, nr, nc, tfm, fixed, nodata, memname, h, live) ==
    LET src == data(rr, h)
        fill == [b \in 1..rr.attrs.count |->
                   IF rr.attrs.nodata.kind = "none" THEN 0 ELSE BandNdv(rr.attrs.nodata, b)]
        dst_data == warp_reproject(src, rr.attrs.transform, rr.attrs.count, nr, nc, tfm, fill,
                                   IF fixed THEN "float64" ELSE src.dtype)
    IN IF src = NoArray THEN Reprojected("Exception", rr, NoRaster, h)
       ELSE reproject_return(
                rr,
                from_array("Raster", dst_data,
                           [kind |-> "Affine", v |-> <<tfm.a, tfm.b, tfm.c, tfm.d, tfm.e, tfm.f>>],
                           [kind |-> "CRS", code |-> crs.epsg], nodata, memname, h, live),
                h)

\* reproject once the size and the bounds of the target are settled (<<>>
\* for None).  Without a destination transform rasterio derives the grid
\* from the source's: its origin, and its pixel size unless dst_res is given.
reproject_sized(rr, g, size, bounds, nodata, memname, h, live) ==
    LET t == rr.attrs.transform
        xres == g.res[1]
        yres == g.res[Len(g.res)]
    IN IF size # <<>> /\ bounds # <<>>
       THEN reproject_warp(rr, g.crs, size[1][2], size[1][1],
                           from_bounds(bounds[1], size[1][1], size[1][2]), TRUE,
                           nodata, memname, h, live)
       ELSE IF size # <<>>
       THEN reproject_warp(rr, g.crs, size[1][2], size[1][1],
                           IF g.res # <<>> THEN Affine(xres, 0, t.c, 0, -yres, t.f) ELSE t,
                           TRUE, nodata, memname, h, live)
       ELSE IF g.res # <<>>
       THEN reproject_warp(rr, g.crs, Ceil(rr.attrs.height * (-t.e), yres),
                           Ceil(rr.attrs.width * t.a, xres),
                           Affine(xres, 0, t.c, 0, -yres, t.f), FALSE,
                           nodata, memname, h, live)
       ELSE reproject_warp(rr, g.crs, rr.attrs.height, rr.attrs.width, t, FALSE,
                           nodata, memname, h, live)

\* reproject after the checks of its arguments, with a target size rounded
\* down where reproject rounds it up.
reproject_target_floor(rr, g, nodata, memname, h, live) ==
    LET xres == g.res[1]
        yres == g.res[Len(g.res)]
        b0 == g.bounds[1]
        dst_width == Floor(b0[3] - b0[1], xres)
        dst_height == Floor(Abs(b0[2] - b0[4]), yres)
    IN IF g.exc # "none" THEN Reprojected(g.exc, rr, NoRaster, h)
       ELSE IF g.res # <<>> /\ g.bounds # <<>>
       THEN reproject_sized(rr, g, <<<<dst_width, dst_height>>>>,
                            <<<<b0[1], b0[4] - yres * dst_height,
                                b0[1] + xres * dst_width, b0[4]>>>>,
                            nodata, memname, h, live)
       ELSE reproject_sized(rr, g, g.size, g.bounds, nodata, memname, h, live)

\* reproject after the checks of its arguments, which gave the target g.
\* g.res is <<>> for None, <<res>> for one number and <<xres, yres>> for a
\* tuple.
reproject_target(rr, g, nodata, memname, h, live) ==
    LET xres == g.res[1]
        yres == g.res[Len(g.res)]
        b0 == g.bounds[1]
        dst_width == Ceil(b0[3] - b0[1], xres)
        dst_height == Ceil(Abs(b0[2] - b0[4]), yres)
    IN IF g.exc # "none" THEN Reprojected(g.exc, rr, NoRaster, h)
       ELSE IF g.res # <<>> /\ g.bounds # <<>>
       THEN reproject_sized(rr, g, <<<<dst_width, dst_height>>>>,
                            <<<<b0[1], b0[4] - yres * dst_height,
                                b0[1] + xres * dst_width, b0[4]>>>>,
                            nodata, memname, h, live)
       ELSE reproject_sized(rr, g, g.size, g.bounds, nodata, memname, h, live)

\* Raster.reproject(dst_ref, dst_crs, dst_size, dst_bounds, dst_res, nodata)
\* with the default resampling (nearest), for a target in the CRS of the
\* Raster.  dst_res is <<>>, <<res>> or the tuple <<xres, yres>>.
reproject(rr, dst_ref, dst_crs, dst_size, dst_bounds, dst_res, nodata, files, memname, h, live) ==
    reproject_target(rr, reproject_args(dst_ref, dst_crs, dst_size, dst_bounds, dst_res, files),
                     nodata, memname, h, live)

\* ------------------------------------------------------------- the state

VARIABLES
    r,        \* the Raster the operations are applied to
    r2,       \* a second Raster: a crop geometry, a copy of r, a reopened file
    arrays,   \* the heap: reference -> array object
    disk,     \* file name -> dataset stored in the file (NoDs: no file)
    given,    \* the arguments r was built from
    last,     \* the last call: its name, its arguments, whether it raised, and
              \* whether any call so far changed r's data or metadata
    nops,     \* number of calls made
    q         \* the last query made of r, with its arguments and its result

vars == <<r, r2, arrays, disk, given, last, nops, q>>

\* ------------------------------------------------------------ test data

PixVals == <<0, 1, 130, 255>>

\* A file of `count` bands, 2 rows and 3 columns of 2 x 2 pixels with its
\* upper-left corner at (x0, y0), in EPSG:32645.
TestFile(name, driver, count, nodata, seed, x0, y0) ==
    [name |-> name, driver |-> driver, count |-> count, dtype |-> "uint8",
     crs |-> CRS_from_epsg(32645), transform |-> Affine(2, 0, x0, 0, -2, y0),
     width |-> 3, height |-> 2, nodata |-> nodata,
     px |-> [b \in 1..count |->
               [i \in 1..2 |->
                  [j \in 1..3 |-> PixVals[((seed + b + 2 * i + 3 * j) % 4) + 1]]]]]

FileNames == {"img1.tif", "img2.tif", "out.tif"}

Img1Files ==
    {TestFile("img1.tif", "GTiff", 1, ScalarNdv(255), 0, 0, 4),
     TestFile("img1.tif", "GTiff", 1, NoneNdv, 1, 0, 4),
     TestFile("img1.tif", "VRT", 2, ScalarNdv(0), 2, 0, 4)}

\* The second file overlaps the first; its bounds lie on the pixel grid of
\* the first (corner at (2, 6)) or between its pixel edges (corner at (3, 7)).
Img2Files ==
    {TestFile("img2.tif", "GTiff", 1, ScalarNdv(255), 3, 2, 6),
     TestFile("img2.tif", "GTiff", 1, ScalarNdv(255), 3, 3, 7)}

\* The ways r is constructed.
Variant(cls, how, load_data, masked, as_memfile) ==
    [cls |-> cls, how |-> how, load_data |-> load_data, masked |-> masked,
     as_memfile |-> as_memfile]

Variants ==
    {Variant("Raster", "path", TRUE, TRUE, FALSE),
     Variant("Raster", "path", FALSE, TRUE, FALSE),
     Variant("Raster", "path", TRUE, FALSE, FALSE),
     Variant("Raster", "path", TRUE, TRUE, TRUE),
     Variant("SatelliteImage", "path", TRUE, TRUE, FALSE),
     Variant("Raster", "from_array", TRUE, TRUE, FALSE),
     Variant("Raster", "MemoryFile", FALSE, TRUE, FALSE)}

NoArgs == [data |-> NoArray, transform |-> [kind |-> "none", v |-> <<>>],
           crs |-> [kind |-> "none", code |-> 0], nodata |-> NoneNdv]

\* Arguments for from_array taken from a file's content: a plain array (2-D
\* when there is one band), the transform as a tuple, the CRS as an integer.
ArgsOf(f) ==
    [data |-> [DsRead(f, FALSE) EXCEPT !.ndim = IF f.count = 1 THEN 2 ELSE 3],
     transform |-> [kind |-> "tuple",
                    v |-> <<f.transform.a, f.transform.b, f.transform.c,
                            f.transform.d, f.transform.e, f.transform.f>>],
     crs |-> [kind |-> "int", code |-> f.crs.epsg],
     nodata |-> f.nodata]

Path(p) == [kind |-> "str", path |-> p, ds |-> NoDs]

\* No query made yet.
NoQuery ==
    [op |-> "none", x |-> 0, y |-> 0, band |-> [kind |-> "None", v |-> 0],
     masked |-> FALSE, window |-> <<>>, return_window |-> FALSE, arg |-> <<>>,
     out |-> NoResult]

Init ==
    \E f1 \in Img1Files, f2 \in Img2Files, v \in Variants :
        LET files == [n \in FileNames |->
                        IF n = "img1.tif" THEN f1
                        ELSE IF n = "img2.tif" THEN f2 ELSE NoDs]
            o2 == __init__("Raster", Path("img2.tif"), <<>>, TRUE, NoBands, TRUE, FALSE,
                           files, "", [ref \in Refs |-> NoArray], {})
            a == ArgsOf(f1)
            o1 == IF v.how = "from_array"
                  THEN from_array(v.cls, a.data, a.transform, a.crs, a.nodata,
                                  FreshName({}), o2.h, {o2.r._data})
                  ELSE IF v.how = "MemoryFile"
                  THEN __init__(v.cls, [kind |-> "MemoryFile", path |-> "", ds |-> f1],
                                <<>>, v.load_data, NoBands, v.masked, FALSE, files,
                                FreshName({}), o2.h, {o2.r._data})
                  ELSE __init__(v.cls, Path("img1.tif"), <<>>, v.load_data, NoBands, v.masked,
                                v.as_memfile, files, FreshName({}), o2.h, {o2.r._data})
        IN /\ r = o1.r
           /\ r2 = o2.r
           /\ arrays = o1.h
           /\ disk = files
           /\ given = IF v.how = "from_array" THEN a ELSE NoArgs
           /\ last = [op |-> "init", arg |-> <<>>, raised |-> FALSE, mutated |-> FALSE]
           /\ nops = 0
           /\ q = NoQuery

\* ------------------------------------------------------------ the calls

\* References held by the two Rasters, names of their open handles.
Live == {r._data, r2._data}
Names == {r.ds.name, r2.ds.name}

\* Arrays no Raster refers to any more are collected.
GC(h, keep) == [ref \in Refs |-> IF ref \in keep THEN h[ref] ELSE NoArray]

\* A method call on r, with arguments arg, that ends as `out`.  load() is
\* the one method that changes r without changing its data or metadata.
Call(op, arg, out) ==
    /\ nops < MaxOps
    /\ r' = out.r
    /\ arrays' = GC(out.h, {out.r._data, r2._data})
    /\ last' = [op |-> op, arg |-> arg, raised |-> out.raised,
                mutated |-> \/ last.mutated
                            \/ op # "load" /\ out.r # r
                            \/ op # "load" /\ data(out.r, out.h) # data(r, arrays)]
    /\ nops' = nops + 1
    /\ UNCHANGED <<r2, disk, given, q>>

\* r.load()
Load == Call("load", <<>>, load(r, NoBands, arrays, Live))

\* Crop geometries: the second Raster, or a list of coordinates.
CropGeoms ==
    {[kind |-> "Raster", bounds |-> r2.attrs.bounds],
     [kind |-> "list", bounds |-> <<1, 1, 5, 3>>]}

\* r.crop(cropGeom, mode)
Crop ==
    \E g \in CropGeoms, mode \in {"match_pixel", "match_extent"} :
        Call("crop", <<g.kind, mode>>, crop(r, g, mode, FreshName(Names), arrays, Live))

\* r.shift(xoff, yoff)
Shift ==
    \E off \in {<<1, -1>>, <<-2, 2>>} :
        Call("shift", off, shift(r, off[1], off[2], FreshName(Names), arrays, Live))

\* r.set_ndv(ndv, update_array) with a number or with one number per band
SetNdv ==
    \E ndv \in {[kind |-> "scalar", v |-> <<254>>],
                [kind |-> "list", v |-> [b \in 1..r.attrs.count |-> 254]]},
       update_array \in BOOLEAN :
        Call("set_ndv", <<ndv.kind, update_array>>,
             set_ndv(r, ndv, update_array, FreshName(Names), arrays, Live))

\* r.set_dtypes(dtypes, update_array) with a type or a list of one type
SetDtypes ==
    \E kind \in {"type", "list"}, update_array \in BOOLEAN :
        Call("set_dtypes", <<kind, update_array>>,
             set_dtypes(r, [kind |-> kind, v |-> <<"int8">>], update_array,
                        FreshName(Names), arrays, Live))

\* r.data = np.full(r.ds.shape, 7, dtype): a new plain array is assigned
SetData ==
    LET ref == FreshRef(Live)
        new_data == [dtype |-> r.ds.dtype, ndim |-> 3, masked |-> FALSE,
                     vals |-> [b \in 1..r.ds.count |->
                                 [i \in 1..r.ds.height |-> [j \in 1..r.ds.width |-> 7]]],
                     mask |-> [b \in 1..r.ds.count |->
                                 [i \in 1..r.ds.height |-> [j \in 1..r.ds.width |-> FALSE]]]]
    IN Call("data_setter", <<>>, data_setter(r, ref, [arrays EXCEPT ![ref] = new_data]))

\* arr += k on an array object: masked entries keep their value.
iadd(arr, k) ==
    [arr EXCEPT !.vals = [b \in DOMAIN arr.vals |->
                            [i \in DOMAIN arr.vals[b] |->
                               [j \in DOMAIN arr.vals[b][i] |->
                                  IF arr.masked /\ arr.mask[b][i][j]
                                  THEN arr.vals[b][i][j]
                                  ELSE Cast(arr.vals[b][i][j] + k, arr.dtype)]]]]

\* r.data += 5: the array object is changed in place, then assigned back.
EditData ==
    Call("iadd", <<>>,
         IF r._data = 0 THEN Outcome(TRUE, r, arrays)
         ELSE data_setter(r, r._data, [arrays EXCEPT ![r._data] = iadd(@, 5)]))

\* r2.data += 5
EditData2 ==
    /\ nops < MaxOps
    /\ r2._data # 0
    /\ arrays' = [arrays EXCEPT ![r2._data] = iadd(@, 5)]
    /\ last' = [op |-> "iadd2", arg |-> <<>>, raised |-> FALSE, mutated |-> last.mutated]
    /\ nops' = nops + 1
    /\ UNCHANGED <<r, r2, disk, given, q>>

\* r2 = r.copy()
Copy ==
    LET out == copy(r, <<>>, FreshName(Names), arrays, Live) IN
    /\ nops < MaxOps
    /\ r2' = IF out.raised THEN r2 ELSE out.r
    /\ arrays' = GC(out.h, {r._data, r2'._data})
    /\ last' = [op |-> "copy", arg |-> <<>>, raised |-> out.raised, mutated |-> last.mutated]
    /\ nops' = nops + 1
    /\ UNCHANGED <<r, disk, given, q>>

\* r.save("out.tif")
Save ==
    LET out == save(r, "out.tif", "GTiff", "None", [kind |-> "none", v |-> 0], arrays) IN
    /\ nops < MaxOps
    /\ disk' = IF out.written THEN [disk EXCEPT !["out.tif"] = out.file] ELSE disk
    /\ last' = [op |-> "save", arg |-> <<>>, raised |-> out.raised, mutated |-> last.mutated]
    /\ nops' = nops + 1
    /\ UNCHANGED <<r, r2, arrays, given, q>>

\* r2 = Raster("out.tif"), once the file exists
Reopen ==
    LET out == __init__("Raster", Path("out.tif"), <<>>, TRUE, NoBands, TRUE, FALSE, disk,
                        "", arrays, Live) IN
    /\ nops < MaxOps
    /\ disk["out.tif"] # NoDs
    /\ r2' = out.r
    /\ arrays' = GC(out.h, {r._data, r2'._data})
    /\ last' = [op |-> "reopen", arg |-> <<>>, raised |-> FALSE, mutated |-> last.mutated]
    /\ nops' = nops + 1
    /\ UNCHANGED <<r, disk, given, q>>

Next ==
    \/ Load
    \/ Crop
    \/ Shift
    \/ SetNdv
    \/ SetDtypes
    \/ SetData
    \/ EditData
    \/ EditData2
    \/ Copy
    \/ Save
    \/ Reopen

Spec == Init /\ [][Next]_vars

\* ------------------------------------------------------------ the queries

\* A file of `count` bands, 3 rows and 4 columns of 2 x 2 pixels with its
\* upper-left corner at (0, 6), in EPSG:32645.
QueryFile(count, nodata, seed) ==
    [name |-> "img1.tif", driver |-> "GTiff", count |-> count, dtype |-> "uint8",
     crs |-> CRS_from_epsg(32645), transform |-> Affine(2, 0, 0, 0, -2, 6),
     width |-> 4, height |-> 3, nodata |-> nodata,
     px |-> [b \in 1..count |->
               [i \in 1..3 |->
                  [j \in 1..4 |-> PixVals[((seed + b + i * i + 3 * j) % 4) + 1]]]]]

QueryFiles ==
    {QueryFile(1, ScalarNdv(255), 0), QueryFile(1, NoneNdv, 1), QueryFile(2, ScalarNdv(0), 2)}

\* A raster higher than wide: one band of 3 x 6 pixels, 2 wide and 1 high,
\* over the extent (0, 0, 6, 6), without nodata value.
TallFile ==
    [name |-> "img1.tif", driver |-> "GTiff", count |-> 1, dtype |-> "uint8",
     crs |-> CRS_from_epsg(32645), transform |-> Affine(2, 0, 0, 0, -1, 6),
     width |-> 3, height |-> 6, nodata |-> NoneNdv,
     px |-> <<[i \in 1..6 |-> [j \in 1..3 |-> PixVals[((i * i + 3 * j) % 4) + 1]]]>>]

\* Coordinates queried: the extent of the file and a margin around it.
QueryXs == (0 - Margin)..(8 + Margin)
QueryYs == (0 - Margin)..(6 + Margin)

\* r is opened from a path, with or without its data; no second Raster.
InitQuery ==
    \E f1 \in QueryFiles \cup {TallFile}, load_data \in BOOLEAN :
        LET files == [n \in FileNames |-> IF n = "img1.tif" THEN f1 ELSE NoDs]
            o1 == __init__("Raster", Path("img1.tif"), <<>>, load_data, NoBands, TRUE, FALSE,
                           files, "", [ref \in Refs |-> NoArray], {})
        IN /\ r = o1.r
           /\ r2 = NoRaster
           /\ arrays = o1.h
           /\ disk = files
           /\ given = NoArgs
           /\ last = [op |-> "init", arg |-> <<>>, raised |-> FALSE, mutated |-> FALSE]
           /\ nops = 0
           /\ q = NoQuery

\* r.value_at_coords(x, y, band=band, masked=masked, window=window,
\*                   return_window=return_window), the one query of a run
ValueAtCoords ==
    \E x \in QueryXs, y \in QueryYs,
       band \in {[kind |-> "None", v |-> 0], [kind |-> "int", v |-> 1],
                 [kind |-> "int", v |-> 2], [kind |-> "str", v |-> 0]},
       masked \in BOOLEAN, window \in {<<>>, <<3>>, <<2>>}, return_window \in BOOLEAN :
        /\ q.op = "none"
        /\ q' = [op |-> "value_at_coords", x |-> x, y |-> y, band |-> band,
                 masked |-> masked, window |-> window, return_window |-> return_window,
                 arg |-> <<>>,
                 out |-> value_at_coords(r, x, y, FALSE, band, masked, window,
                                         return_window)]
        /\ UNCHANGED <<r, r2, arrays, disk, given, last, nops>>

\* r.outside_image(xi, yj, index=index), the one query of a run
OutsideImage ==
    \E xi \in QueryXs, yj \in QueryYs, index \in BOOLEAN :
        /\ q.op = "none"
        /\ q' = [NoQuery EXCEPT !.op = "outside_image", !.x = xi, !.y = yj,
                                !.arg = <<index>>,
                                !.out = Returned("bool", <<outside_image(r, xi, yj, index)>>)]
        /\ UNCHANGED <<r, r2, arrays, disk, given, last, nops>>

\* r.coords(offset=offset, grid=grid), the one query of a run
Coords ==
    \E offset \in {"corner", "center", "centre"}, grid \in BOOLEAN :
        /\ q.op = "none"
        /\ q' = [NoQuery EXCEPT !.op = "coords", !.arg = <<offset, grid>>,
                                !.out = coords(r, offset, grid)]
        /\ UNCHANGED <<r, r2, arrays, disk, given, last, nops>>

\* Points on the columns of pixel centres, inside and outside the extent.
QueryPoints == {pt \in QueryXs \X QueryYs : pt[1] % 2 = 1}

\* r.interp_points(pts, nsize=nsize, mode=mode, band=band) for one point
\* or two, the one query of a run
InterpPoints ==
    \E p1 \in QueryPoints, more \in {<<>>, <<<<3, 3>>>>},
       nsize \in {1, 2}, band \in {1, 2}, pick \in {"first", "last"},
       mode \in {"mean", "linear", "cubic", "quintic", "nearest", "spline"} :
        /\ q.op = "none"
        /\ pick = "last" => mode = "nearest"
        /\ q' = [NoQuery EXCEPT !.op = "interp_points", !.x = p1[1], !.y = p1[2],
                                !.arg = <<mode, nsize, band, Len(more)>>,
                                !.out = interp_points(r, arrays, <<p1>> \o more, nsize,
                                                      mode, band, pick)]
        /\ UNCHANGED <<r, r2, arrays, disk, given, last, nops>>

NextQuery ==
    \/ ValueAtCoords
    \/ InterpPoints
    \/ OutsideImage
    \/ Coords

SpecQuery == InitQuery /\ [][NextQuery]_vars

\* ------------------------------------------- constructor arguments, load

\* The `bands` arguments tried: None, a band number, a list of band numbers.
BandArgs ==
    {NoBands, [kind |-> "int", v |-> <<1>>], [kind |-> "int", v |-> <<2>>],
     [kind |-> "list", v |-> <<1>>], [kind |-> "list", v |-> <<2, 1>>]}

\* r = Raster('img1.tif', attrs=attrs, load_data=load_data, bands=bands) and
\* r2 = Raster('img2.tif'); `given` keeps the arguments of the first.
InitLoad ==
    \E f1 \in Img1Files, attrs \in {<<>>, <<"meta">>}, load_data \in BOOLEAN,
       bands \in {NoBands, [kind |-> "int", v |-> <<1>>], [kind |-> "list", v |-> <<1>>]} :
        LET files == [n \in FileNames |->
                        IF n = "img1.tif" THEN f1
                        ELSE IF n = "img2.tif"
                        THEN TestFile("img2.tif", "GTiff", 1, ScalarNdv(255), 3, 2, 6)
                        ELSE NoDs]
            o2 == __init__("Raster", Path("img2.tif"), <<>>, TRUE, NoBands, TRUE, FALSE,
                           files, "", [ref \in Refs |-> NoArray], {})
            o1 == __init__("Raster", Path("img1.tif"), attrs, load_data, bands, TRUE, FALSE,
                           files, "", o2.h, {o2.r._data})
        IN /\ r = o1.r
           /\ r2 = o2.r
           /\ arrays = o1.h
           /\ disk = files
           /\ given = [attrs |-> attrs, load_data |-> load_data, bands |-> bands]
           /\ last = [op |-> "init", arg |-> <<>>, raised |-> FALSE, mutated |-> FALSE]
           /\ nops = 0
           /\ q = NoQuery

\* r.load(bands)
LoadBands ==
    \E bands \in BandArgs :
        Call("load", <<bands>>, load(r, bands, arrays, Live))

NextLoad ==
    \/ LoadBands
    \/ Crop
    \/ Shift
    \/ SetNdv
    \/ SetDtypes

SpecLoad == InitLoad /\ [][NextLoad]_vars

\* ------------------------------------------------------- pairs of rasters

\* A second file of 2 x 2 pixels of size 2 with its upper left corner at
\* (ox, oy).
PairFile(ox, oy) ==
    [name |-> "img2.tif", driver |-> "GTiff", count |-> 1, dtype |-> "uint8",
     crs |-> CRS_from_epsg(32645), transform |-> Affine(2, 0, ox, 0, -2, oy),
     width |-> 2, height |-> 2, nodata |-> NoneNdv,
     px |-> <<<<<<1, 130>>, <<255, 0>>>>>>]

\* Corners that place the second file apart from the first (bounds
\* (0, 0, 8, 6)), against one of its edges or corners, across an edge, or
\* inside it.
PairXs == {-5, -4, -2, 3, 8, 9}
PairYs == {-1, 0, 2, 5, 10, 11}

\* r and r2 are opened from two files of the same CRS.
InitPair ==
    \E f1 \in QueryFiles, ox \in PairXs, oy \in PairYs, load_data \in BOOLEAN :
        LET files == [n \in FileNames |->
                        IF n = "img1.tif" THEN f1
                        ELSE IF n = "img2.tif" THEN PairFile(ox, oy) ELSE NoDs]
            o1 == __init__("Raster", Path("img1.tif"), <<>>, load_data, NoBands, TRUE, FALSE,
                           files, "", [ref \in Refs |-> NoArray], {})
            o2 == __init__("Raster", Path("img2.tif"), <<>>, FALSE, NoBands, TRUE, FALSE,
                           files, "", o1.h, {o1.r._data})
        IN /\ r = o1.r
           /\ r2 = o2.r
           /\ arrays = o2.h
           /\ disk = files
           /\ given = NoArgs
           /\ last = [op |-> "init", arg |-> <<>>, raised |-> FALSE, mutated |-> FALSE]
           /\ nops = 0
           /\ q = NoQuery

\* r.intersection(r2), r.intersection('img2.tif') or r2.intersection(r),
\* the one query of a run
Intersection ==
    \E caller \in {"r", "r2"}, how \in {"Raster", "str"} :
        /\ q.op = "none"
        /\ caller = "r2" => how = "Raster"
        /\ q' = [NoQuery EXCEPT
                   !.op = "intersection", !.arg = <<caller, how>>,
                   !.out = IF caller = "r"
                           THEN intersection(r, [kind |-> how, r |-> r2, path |-> "img2.tif"],
                                             disk)
                           ELSE intersection(r2, [kind |-> how, r |-> r, path |-> "img1.tif"],
                                             disk)]
        /\ UNCHANGED <<r, r2, arrays, disk, given, last, nops>>

\* The arguments of a call of reproject: as the Raster or the path the grid
\* is taken from, r2, its file, a file that does not exist, or a number.
RefArgs ==
    {[kind |-> "None", r |-> NoRaster, path |-> ""],
     [kind |-> "Raster", r |-> r2, path |-> ""],
     [kind |-> "str", r |-> NoRaster, path |-> "img2.tif"],
     [kind |-> "str", r |-> NoRaster, path |-> "out.tif"],
     [kind |-> "int", r |-> NoRaster, path |-> ""]}

\* What is kept of the Raster that reproject returned.
Summary(rr, h) ==
    [cls |-> rr.cls, attrs |-> rr.attrs, isLoaded |-> rr.isLoaded, data |-> data(rr, h)]

\* What a call of reproject that ended as o gave its caller.
ReprojectOut(o) ==
    [raised |-> o.raised, exc |-> o.exc,
     value |-> IF o.raised THEN [kind |-> "none", v |-> <<>>]
               ELSE [kind |-> "Raster", v |-> <<Summary(o.r, o.h)>>],
     win |-> [kind |-> "none", v |-> <<>>]]

\* r.reproject(dst_ref=.., dst_crs=.., dst_size=.., dst_bounds=..,
\* dst_res=..), the one query of a run
Reproject ==
    \E dst_ref \in RefArgs, dst_crs \in {<<>>, <<32645>>},
       dst_size \in {<<>>, <<<<2, 3>>>>},
       dst_bounds \in {<<>>, <<<<2, 0, 6, 6>>>>, <<<<1, 1, 6, 6>>>>},
       dst_res \in {<<>>, <<1>>, <<4>>, <<2, 4>>} :
        LET o == reproject(r, dst_ref, dst_crs, dst_size, dst_bounds, dst_res, NoneNdv,
                           disk, FreshName(Names), arrays, Live) IN
        /\ q.op = "none"
        /\ q' = [NoQuery EXCEPT
                   !.op = "reproject",
                   !.arg = <<dst_ref.kind, dst_ref.path, dst_crs, dst_size, dst_bounds, dst_res>>,
                   !.out = ReprojectOut(o)]
        /\ r' = o.self
        /\ UNCHANGED <<r2, arrays, disk, given, last, nops>>

NextPair ==
    \/ Intersection
    \/ Reproject

SpecPair == InitPair /\ [][NextPair]_vars

\* ------------------------------------------------------------ properties

\* The last call was `op`, on r, and returned.
Did(op) == last.op = op /\ ~last.raised

Mutators == {"crop", "shift", "set_ndv", "set_dtypes", "data_setter"}

\* C1: after crop, shift, set_ndv, set_dtypes or an assignment through the
\* data setter has returned, matches_disk is false.
C1_MutationClearsMatchesDisk ==
    (last.op \in Mutators /\ ~last.raised) => r.matches_disk = "False"

\* C2: a Raster with no file behind it (no filename) has matches_disk unset,
\* whatever has been applied to it.
C2_NeverOnDiskStaysNone ==
    /\ r.filename = "None" => r.matches_disk = "None"
    /\ r2.filename = "None" => r2.matches_disk = "None"

\* C3: a Raster opened from a path whose data is loaded, with no mutation
\* since it was opened, has matches_disk true.
C3_LoadedFromPathMatchesDisk ==
    (r.filename # "None" /\ r._data # 0 /\ ~last.mutated) => r.matches_disk = "True"

\* C4: the default attributes cached on a Raster are those of its current
\* dataset handle, in every reachable state.
C4_AttrsFollowHandle ==
    /\ r.attrs = DsAttrs(r.ds)
    /\ r2.attrs = DsAttrs(r2.ds)

\* C4 witness: a crop has replaced the handle by a narrower dataset.
C4_Witness ==
    /\ Did("crop")
    /\ r.ds.width < 3
    /\ r.ds.name \in Range(MemNames)

\* C5: a Raster built with from_array, saved and reopened from the saved
\* file has the array values, CRS, transform, nodata value and band count
\* that were given to from_array.
C5_RoundTrip ==
    (given # NoArgs /\ Did("reopen") /\ ~last.mutated) =>
        /\ data(r2, arrays).vals = given.data.vals
        /\ r2.attrs.crs = CRS_from_epsg(given.crs.code)
        /\ r2.attrs.transform = Affine(given.transform.v[1], given.transform.v[2],
                                       given.transform.v[3], given.transform.v[4],
                                       given.transform.v[5], given.transform.v[6])
        /\ r2.attrs.nodata = given.nodata
        /\ r2.attrs.count = Len(given.data.vals)

\* C5 witness: the file saved from a from_array Raster with a nodata value
\* has been reopened.
C5_Witness ==
    /\ given # NoArgs
    /\ given.nodata.kind = "scalar"
    /\ Did("reopen")
    /\ ~last.mutated
    /\ r2.filename = "/cwd/out.tif"
    /\ r2.matches_disk = "True"

\* The last step was r.crop(r2) in 'match_pixel' mode, and it returned.
CroppedToR2 ==
    /\ last'.op = "crop"
    /\ last'.arg = <<"Raster", "match_pixel">>
    /\ ~last'.raised

C7_CopyEqualsSource ==
    Did("copy") =>
        /\ r2.filename = "None"
        /\ \A a \in {"bounds", "count", "crs", "dtypes", "height", "width", "res",
                     "transform", "nodata"} : r2.attrs[a] = r.attrs[a]
        /\ data(r2, arrays).vals = data(r, arrays).vals
        /\ r2._data # r._data

\* C8: copy() returns an instance of the class of the Raster it is called on.
C8_CopyKeepsClass ==
    Did("copy") => r2.cls = r.cls

\* C9: on a Raster with more than one band, set_ndv with a single number v
\* ends in the same way and leaves the same Raster and the same arrays as
\* set_ndv with v given once per band, for both values of update_array.
C9_ScalarIsPerBandList ==
    r.attrs.count > 1 =>
        \A v \in {0, 7, 254}, update_array \in BOOLEAN :
            set_ndv(r, ScalarNdv(v), update_array, FreshName(Names), arrays, Live)
            = set_ndv(r, ListNdv([b \in 1..r.attrs.count |-> v]), update_array,
                      FreshName(Names), arrays, Live)

\* C9 witness: set_ndv with a single number has been applied to a Raster of
\* two bands, whose nodata value is now that number for each band.
C9_Witness ==
    /\ Did("set_ndv")
    /\ last.arg[1] = "scalar"
    /\ r.attrs.count = 2
    /\ r.attrs.nodata = ListNdv(<<254, 254>>)

\* The last query was value_at_coords(x, y) with the defaults for band and
\* masked, it returned, and the pixels it is about lie `reach` pixels or
\* more inside the Raster.
PixelQuery(window, reach) ==
    LET idx == ds_index(r.ds, q.x, q.y) IN
    /\ q.op = "value_at_coords"
    /\ ~q.out.raised
    /\ q.band.kind = "None"
    /\ ~q.masked
    /\ q.window = window
    /\ idx.row >= reach /\ idx.row < r.ds.height - reach
    /\ idx.col >= reach /\ idx.col < r.ds.width - reach

\* C10: without a window, value_at_coords(x, y) gives, for each band, the
\* value of the pixel at the dataset index of (x, y); with window=3 and the
\* default reducer it gives the mean of the 3 x 3 pixels centred on it.
C10_PixelOrBlockMean ==
    LET idx == ds_index(r.ds, q.x, q.y)
        px(b, di, dj) == r.ds.px[b][idx.row + 1 + di][idx.col + 1 + dj]
        block(b) == px(b, -1, -1) + px(b, -1, 0) + px(b, -1, 1)
                    + px(b, 0, -1) + px(b, 0, 0) + px(b, 0, 1)
                    + px(b, 1, -1) + px(b, 1, 0) + px(b, 1, 1)
        val == q.out.value.v
    IN /\ PixelQuery(<<>>, 0) =>
            /\ Len(val) = r.ds.count
            /\ \A b \in 1..r.ds.count :
                   val[b].den > 0 /\ val[b].num = px(b, 0, 0) * val[b].den
       /\ PixelQuery(<<3>>, 1) =>
            /\ Len(val) = r.ds.count
            /\ \A b \in 1..r.ds.count :
                   val[b].den > 0 /\ 9 * val[b].num = block(b) * val[b].den

\* C10 witness: a 3 x 3 window has been read around an inner pixel, and its
\* mean is not the value of that pixel.
C10_Witness ==
    /\ PixelQuery(<<3>>, 1)
    /\ q.out.value.v[1].den = 9
    /\ q.out.value.v[1].num
         # 9 * r.ds.px[1][ds_index(r.ds, q.x, q.y).row + 1][ds_index(r.ds, q.x, q.y).col + 1]

\* C12: outside_image(xi, yj) with index=True is false for every valid pixel
\* index (0 <= xi < width, 0 <= yj < height) and true for every index that
\* is negative or at least one past the valid range.
C12_OutsideIffNotValidIndex ==
    (q.op = "outside_image" /\ q.arg = <<TRUE>>) =>
        (q.out.value.v[1] = ~(/\ 0 <= q.x /\ q.x < r.ds.width
                              /\ 0 <= q.y /\ q.y < r.ds.height))

\* C13: for a north-up raster coords(offset='corner', grid=False) gives the
\* x-values xmin + k*dx, k = 0..width-1, and the y-values ymax + k*dy,
\* k = 0..height-1.
C13_CornerCoords ==
    (q.op = "coords" /\ q.arg = <<"corner", FALSE>> /\ ~q.out.raised) =>
        LET xx == q.out.value.v[1]
            yy == q.out.value.v[2]
            t == r.ds.transform
        IN /\ Len(xx) = r.ds.width
           /\ \A k \in 1..Len(xx) : FracEq(xx[k], Frac(t.c + (k - 1) * t.a, 1))
           /\ Len(yy) = r.ds.height
           /\ \A k \in 1..Len(yy) : FracEq(yy[k], Frac(t.f + (k - 1) * t.e, 1))

\* C11: for the modes 'linear', 'cubic', 'quintic' and 'nearest' and every
\* pixel of a loaded raster, interp_points at the coordinate of the
\* pixel's centre gives the value stored in the pixel.
C11_InterpAtCentreIsPixel ==
    LET ij == xy2ij(r, q.x, q.y) IN
    (/\ q.op = "interp_points"
     /\ q.arg[1] \in {"linear", "cubic", "quintic", "nearest"}
     /\ q.arg[3] = 1
     /\ r._data # 0
     /\ ij[1] >= 0 /\ ij[1] < r.ds.height
     /\ ij[2] >= 0 /\ ij[2] < r.ds.width
     /\ 2 * q.y = 2 * r.ds.transform.f + r.ds.transform.e * (2 * ij[1] + 1)) =>
        /\ ~q.out.raised
        /\ FracEq(q.out.value.v[1], Frac(r.ds.px[1][ij[1] + 1][ij[2] + 1], 1))

\* Whether the pixel (b, i, j) of the array arr counts as nodata: it is
\* masked, or, in a plain array, it holds the nodata value of its band.
IsNodata(arr, nodata, b, i, j) ==
    IF arr.masked THEN arr.mask[b][i][j]
    ELSE nodata.kind # "none" /\ arr.vals[b][i][j] = BandNdv(nodata, b)

\* C14: set_ndv(new, update_array=True) on a Raster with an array and a
\* previous nodata value returns; every pixel that was nodata holds the new
\* value of its band, the nodata positions are the same as before, and the
\* nodata metadata is the new value.
C14_SetNdvUpdatesArray ==
    [][(/\ last'.op = "set_ndv"
        /\ last'.arg[2]
        /\ r.attrs.nodata.kind # "none"
        /\ r._data # 0) =>
          LET old == data(r, arrays)
              new == data(r', arrays')
              cells == {c \in (1..r.ds.count) \X (1..r.ds.height) \X (1..r.ds.width) : TRUE}
          IN /\ ~last'.raised
             /\ r'.attrs.nodata.kind # "none"
             /\ \A b \in 1..r.ds.count : BandNdv(r'.attrs.nodata, b) = 254
             /\ \A c \in cells :
                   /\ IsNodata(old, r.attrs.nodata, c[1], c[2], c[3])
                        => new.vals[c[1]][c[2]][c[3]] = 254
                   /\ IsNodata(old, r.attrs.nodata, c[1], c[2], c[3])
                        = IsNodata(new, r'.attrs.nodata, c[1], c[2], c[3])]_vars

\* C15: set_dtypes(T, update_array=True) on a newly opened Raster with its
\* array loaded and a nodata value that T can hold, whatever its number of
\* bands, returns; the array is then the previous one cast to
\* T and the dataset's dtype is T for every band.
C15_SetDtypesCastsArray ==
    [][(/\ last'.op = "set_dtypes"
        /\ last'.arg = <<"type", TRUE>>
        /\ nops = 0
        /\ r._data # 0
        /\ \A k \in 1..Len(r.attrs.nodata.v) : in_dtype_range(r.attrs.nodata.v[k], "int8")) =>
          /\ ~last'.raised
          /\ data(r', arrays').dtype = "int8"
          /\ data(r', arrays').vals = astype(data(r, arrays), "int8").vals
          /\ r'.ds.dtype = "int8"
          /\ r'.attrs.dtypes = [b \in 1..r.ds.count |-> "int8"]]_vars

\* C16: shift(xoff, yoff) moves the origin of the transform and the bounds
\* by (xoff, yoff) and leaves the pixel size, the width, the height, the
\* number of bands, the CRS, the nodata value and the pixel values as they
\* were.
C16_ShiftMovesOriginOnly ==
    [][last'.op = "shift" =>
          LET xoff == last'.arg[1]
              yoff == last'.arg[2]
              t == r.attrs.transform
              b == r.attrs.bounds
          IN /\ r'.attrs.transform = [t EXCEPT !.c = t.c + xoff, !.f = t.f + yoff]
             /\ r'.attrs.bounds = <<b[1] + xoff, b[2] + yoff, b[3] + xoff, b[4] + yoff>>
             /\ r'.attrs.res = r.attrs.res
             /\ r'.attrs.width = r.attrs.width
             /\ r'.attrs.height = r.attrs.height
             /\ r'.attrs.count = r.attrs.count
             /\ r'.attrs.crs = r.attrs.crs
             /\ r'.attrs.nodata = r.attrs.nodata
             /\ r'.ds.px = r.ds.px
             /\ data(r', arrays') = data(r, arrays)]_vars

\* The last query was intersection, between two Rasters whose bounds have
\* the common part (x0, y0, x1, y1), possibly inverted when they are apart.
Overlap ==
    [x0 |-> Max(r.attrs.bounds[1], r2.attrs.bounds[1]),
     y0 |-> Max(r.attrs.bounds[2], r2.attrs.bounds[2]),
     x1 |-> Min(r.attrs.bounds[3], r2.attrs.bounds[3]),
     y1 |-> Min(r.attrs.bounds[4], r2.attrs.bounds[4])]

\* C20: for two Rasters of the same CRS, intersection returns
\* (max xmin, max ymin, min xmax, min ymax) when the bounds overlap with a
\* positive area; when they are apart or share only an edge or a corner it
\* returns 0 with a warning and without raising; the result is the same
\* whichever of the two Rasters it is called on.
C20_IntersectionIsOverlap ==
    q.op = "intersection" =>
        LET o == Overlap IN
        /\ ~q.out.raised
        /\ IF o.x0 < o.x1 /\ o.y0 < o.y1
           THEN q.out.value = [kind |-> "tuple", v |-> <<o.x0, o.y0, o.x1, o.y1>>]
           ELSE q.out.value = [kind |-> "int", v |-> <<0>>] /\ q.out.warned
        /\ q.out = intersection(r2, [kind |-> "Raster", r |-> r, path |-> ""], disk)
        /\ q.out = intersection(r, [kind |-> "Raster", r |-> r2, path |-> ""], disk)

\* C20 witness: intersection was called on two Rasters that share an edge
\* only, and returned 0.
C20_Witness ==
    /\ q.op = "intersection"
    /\ Overlap.x0 = Overlap.x1
    /\ Overlap.y0 < Overlap.y1
    /\ q.out.value = [kind |-> "int", v |-> <<0>>]
    /\ q.out.warned

\* The last query was reproject with both dst_size and dst_res.
SizeAndRes(qq) ==
    /\ qq.op = "reproject"
    /\ qq.arg[4] # <<>>
    /\ qq.arg[6] # <<>>

\* The target grid of the query is given by dst_crs alone, by a Raster as
\* dst_ref alone, or by the path of an existing file as dst_ref alone.
GridGiven(qq) ==
    \/ qq.arg[1] = "None" /\ qq.arg[3] # <<>>
    \/ qq.arg[1] = "Raster" /\ qq.arg[3] = <<>>
    \/ qq.arg[1] = "str" /\ disk[qq.arg[2]] # NoDs /\ qq.arg[3] = <<>>

\* C17 as stated: reproject raises ValueError whenever both dst_size and
\* dst_res are given, whether the target grid is given by dst_crs or by
\* dst_ref, and the Raster it is called on is unchanged.
C17_SizeAndResAlwaysRefused ==
    [][(SizeAndRes(q') /\ GridGiven(q') /\ r._data # 0) =>
          q'.out.exc = "ValueError" /\ r' = r]_vars

\* C17 amended: with both dst_size and dst_res and no dst_ref, reproject
\* raises ValueError; with a dst_ref the two arguments are replaced by the
\* size of the reference, and the call ends as the same call without them;
\* in both cases the Raster it is called on is unchanged.
C17_SizeAndResRefusedWithoutRef ==
    [][SizeAndRes(q') =>
          LET dst_ref == CHOOSE a \in RefArgs : a.kind = q'.arg[1] /\ a.path = q'.arg[2]
              without == reproject(r, dst_ref, q'.arg[3], <<>>, q'.arg[5], <<>>, NoneNdv,
                                   disk, FreshName(Names), arrays, Live)
          IN /\ r' = r
             /\ dst_ref.kind = "None" => q'.out.exc = "ValueError"
             /\ dst_ref.kind # "None" => q'.out = ReprojectOut(without)]_vars

\* C17 witness: reproject was called with a reference Raster, dst_size and
\* dst_res, and returned a Raster on the grid of the reference.
C17_Witness ==
    /\ SizeAndRes(q)
    /\ q.arg[1] = "Raster"
    /\ ~q.out.raised
    /\ q.out.value.kind = "Raster"
    /\ q.out.value.v[1].attrs.bounds = r2.attrs.bounds
    /\ q.out.value.v[1].attrs.width = r2.attrs.width

\* C18: save(filename, blank_value=v) with v an int or a float writes a file
\* with the band count, height and width of the Raster in which every pixel
\* is v, whether or not the data of the Raster is loaded.
C18_BlankValueFillsFile ==
    \A blank_value \in {[kind |-> "int", v |-> 7], [kind |-> "float", v |-> 0]} :
        LET out == save(r, "out.tif", "GTiff", "None", blank_value, arrays) IN
        /\ ~out.raised
        /\ out.written
        /\ out.file.count = r.ds.count
        /\ out.file.height = r.ds.height
        /\ out.file.width = r.ds.width
        /\ \A b \in 1..r.ds.count, i \in 1..r.ds.height, j \in 1..r.ds.width :
              out.file.px[b][i][j] = blank_value.v

\* C19: a file that save writes with an explicit dtype has that data type; a
\* file that it writes with dtype None has the data type of the data of the
\* Raster.
C19_SaveWritesDtype ==
    r._data # 0 =>
        /\ \A dtype \in {"uint8", "int8", "float64"} :
              LET out == save(r, "out.tif", "GTiff", dtype, [kind |-> "none", v |-> 0], arrays)
              IN out.written => out.file.dtype = dtype
        /\ LET out == save(r, "out.tif", "GTiff", "None", [kind |-> "none", v |-> 0], arrays)
           IN out.written => out.file.dtype = data(r, arrays).dtype

\* C21: the additional attributes named when the Raster was constructed
\* are, in every reachable state, in its list of saved attributes and equal
\* to the values of the current dataset handle.
C21_ExtraAttrsFollowHandle ==
    \A a \in Range(given.attrs) :
        /\ a \in Range(r._saved_attrs)
        /\ r.extra[a] = DsExtra(r.ds, a)

\* C22: in every reachable state isLoaded is true exactly when the Raster
\* holds pixel data; in particular it is true after load() on a Raster
\* constructed with load_data=False.
C22_IsLoadedIffData ==
    r.isLoaded <=> r._data # 0

\* C23: whenever the Raster holds pixel data, loaded by the constructor, by
\* load with bands None, a band number or a list of band numbers, or by the
\* reload of a mutation, the first dimension of the array is nbands.
C23_FirstDimensionIsNbands ==
    r._data # 0 => Shape(data(r, arrays))[1] = r.nbands

\* C24: Raster(filename, bands=B) holds the pixel values of exactly the
\* band(s) B, and of every band only when bands is None.
C24_ConstructorLoadsBands ==
    (nops = 0 /\ given.load_data) =>
        data(r, arrays).vals =
            IF given.bands.kind = "None" THEN r.ds.px
            ELSE DsReadBands(r.ds, given.bands, TRUE).vals

\* C25: when crop, shift, set_ndv or set_dtypes raises, the Raster is as it
\* was before the call: same dataset handle, same cached attributes, same
\* matches_disk and same pixel values in its array.
C25_RaiseLeavesRasterUnchanged ==
    LET name == FreshName(Names)
        same(o) == o.raised => (o.r = r /\ data(o.r, o.h) = data(r, arrays))
    IN /\ \A ndv \in {ScalarNdv(254), ListNdv(<<254>>), ListNdv(<<254, 254>>)},
             update_array \in BOOLEAN :
             same(set_ndv(r, ndv, update_array, name, arrays, Live))
       /\ \A update_array \in BOOLEAN :
             same(set_dtypes(r, [kind |-> "type", v |-> <<"int8">>], update_array,
                             name, arrays, Live))
       /\ \A off \in {<<1, -1>>, <<-2, 2>>} :
             same(shift(r, off[1], off[2], name, arrays, Live))
       /\ \A g \in CropGeoms, mode \in {"match_pixel", "match_extent"} :
             same(crop(r, g, mode, name, arrays, Live))

\* C26: on a Raster whose data was never loaded (load_data=False), shift and
\* set_ndv complete without raising, replace the handle by one holding the same
\* pixel values, and leave the data unloaded.
C26_MutatorsWorkUnloaded ==
    LET name == FreshName(Names)
        done(o) == /\ ~o.raised
                   /\ o.r.ds.px = r.ds.px
                   /\ o.r.ds.name # r.ds.name
                   /\ o.r._data = 0
    IN r._data = 0 =>
          /\ \A off \in {<<1, -1>>, <<-2, 2>>} :
                done(shift(r, off[1], off[2], name, arrays, Live))
          /\ \A update_array \in BOOLEAN :
                done(set_ndv(r, ScalarNdv(254), update_array, name, arrays, Live))

\* The query is reproject(dst_crs=.., dst_bounds=.., dst_res=..), without
\* dst_ref and without dst_size, and it returned a Raster.
ResAndBounds(qq) ==
    /\ qq.op = "reproject"
    /\ qq.arg[1] = "None" /\ qq.arg[3] # <<>>
    /\ qq.arg[4] = <<>> /\ qq.arg[5] # <<>> /\ qq.arg[6] # <<>>
    /\ ~qq.out.raised

\* C27: reproject with dst_crs, dst_res and dst_bounds (no dst_size) returns
\* a Raster of width ceil((right - left) / xres) and height
\* ceil(|bottom - top| / yres), whose bounds keep the requested left and top,
\* have right = left + xres * width and bottom = top - yres * height,
\* contain the requested bounds, and whose pixel size is exactly (xres, yres).
C27_ResAndBoundsGrid ==
    ResAndBounds(q) =>
        LET b == q.arg[5][1]
            xres == q.arg[6][1]
            yres == q.arg[6][Len(q.arg[6])]
            width == Ceil(b[3] - b[1], xres)
            height == Ceil(Abs(b[2] - b[4]), yres)
            out == q.out.value.v[1]
            ob == out.attrs.bounds
        IN /\ out.attrs.width = width
           /\ out.attrs.height = height
           /\ Shape(out.data) = <<r.attrs.count, height, width>>
           /\ ob = <<b[1], b[4] - yres * height, b[1] + xres * width, b[4]>>
           /\ ob[1] <= b[1] /\ ob[2] <= b[2] /\ ob[3] >= b[3] /\ ob[4] >= b[4]
           /\ out.attrs.res = <<xres, yres>>

\* reproject returned a grid for bounds that the resolution does not divide,
\* with different resolutions along x and y: it is larger than requested.
C27_Witness ==
    /\ ResAndBounds(q)
    /\ q.arg[5] = <<<<1, 1, 6, 6>>>>
    /\ q.arg[6] = <<2, 4>>
    /\ q.out.value.v[1].attrs.width = 3
    /\ q.out.value.v[1].attrs.height = 2
    /\ q.out.value.v[1].attrs.bounds = <<1, -2, 7, 6>>

\* C28: value_at_coords(x, y, return_window=True) returns the value together
\* with the window(s) read, for band=None on single-band and multi-band
\* Rasters and for band given as the number of a band.
C28_ReturnWindowGivesWindow ==
    (/\ q.op = "value_at_coords"
     /\ q.return_window
     /\ q.window \in {<<>>, <<3>>}
     /\ \/ q.band.kind = "None"
        \/ q.band.kind = "int" /\ q.band.v \in 1..r.ds.count)
    => /\ ~q.out.raised
       /\ q.out.value.kind \in {"number", "dict"}
       /\ q.out.win.kind = q.out.value.kind
       /\ DOMAIN q.out.win.v = DOMAIN q.out.value.v

\* C29: outside_image(x, y, index=False) takes (x, y) as coordinates: it is
\* false for a point inside the extent of the raster, true for a point
\* outside it, and it is what outside_image(col, row, index=True) gives for
\* the column and the row of the pixel that holds (x, y).
C29_OutsideByCoordinates ==
    (q.op = "outside_image" /\ q.arg = <<FALSE>>) =>
        LET b == DsBounds(r.ds)
            ij == xy2ij(r, q.x, q.y)
            out == q.out.value.v[1]
        IN /\ (b[1] < q.x /\ q.x < b[3] /\ b[2] < q.y /\ q.y < b[4]) => ~out
           /\ (q.x < b[1] \/ q.x > b[3] \/ q.y < b[2] \/ q.y > b[4]) => out
           /\ out = outside_image(r, ij[2], ij[1], TRUE)

\* The block data[band-1, i-nsize..i+nsize, j-nsize..j+nsize] of the array
\* arr, i and j counted from 0, for a pixel at least nsize from every edge.
Block(arr, band, i, j, nsize) ==
    [dtype |-> arr.dtype, ndim |-> 2, masked |-> arr.masked,
     vals |-> <<[a \in 1..(2 * nsize + 1) |->
                  [b \in 1..(2 * nsize + 1) |-> arr.vals[band][i - nsize + a][j - nsize + b]]]>>,
     mask |-> <<[a \in 1..(2 * nsize + 1) |->
                  [b \in 1..(2 * nsize + 1) |-> arr.mask[band][i - nsize + a][j - nsize + b]]]>>]

\* C30: interp_points(pts, mode='mean') on a loaded raster of any width and
\* height returns one value per point; the value is NaN for a point outside
\* the raster, and for a point whose pixel (row i, column j) is at least
\* nsize pixels from every edge it is the mean of the block of 2*nsize+1 by
\* 2*nsize+1 pixels around (i, j) in the band.
C30_MeanOfBlock ==
    LET ij == xy2ij(r, q.x, q.y)
        i == ij[1]
        j == ij[2]
        nsize == q.arg[2]
        band == q.arg[3]
        v == q.out.value.v
    IN (/\ q.op = "interp_points"
        /\ q.arg[1] = "mean"
        /\ r._data # 0
        /\ band <= r.nbands) =>
          /\ ~q.out.raised
          /\ Len(v) = 1 + q.arg[4]
          /\ (i < 0 \/ i >= r.ds.height \/ j < 0 \/ j >= r.ds.width) => v[1] = NaN
          /\ (/\ i - nsize >= 0 /\ i + nsize <= r.ds.height - 1
              /\ j - nsize >= 0 /\ j + nsize <= r.ds.width - 1)
             => FracEq(v[1], ma_mean(Block(data(r, arrays), band, i, j, nsize)))

====
